---------------------------- MODULE Spec2Model ----------------------------
(***************************************************************************)
(* Model of gtfspb_2_mfjson: the per-vehicle trajectory accumulator        *)
(* (Entity), the feed reconciler (VehiclePositionFeed.consume_pb), the     *)
(* process threads of main.py and the daily trajectory aggregator          *)
(* (TrajectoryAggregator).                                                 *)
(***************************************************************************)
EXTENDS Integers, Sequences, FiniteSets, TLC

(***************************************************************************)
(* Bounds of the model.                                                    *)
(***************************************************************************)
\* no entity accumulates more than MaxObs observations
MaxObs == 2
\* entity ids a feed snapshot may report
Ids == <<"v0", "v1", "v2">>
Directions == {0, 1}
\* the directions the feed reports for an id: v1 turns round, the others
\* keep direction 0
DirectionsOf(id) == IF id = "v1" THEN Directions ELSE {0}
\* Unix timestamps a feed record may carry
Times == {1, 2}
\* the timestamps the feed reports for an id: v2 always carries the same
\* one (its records repeat), the others move between two
TimesOf(id) == IF id = "v2" THEN {1} ELSE Times

(***************************************************************************)
(* Program constants (VehiclePositionFeed.py).  MAX_ENTITIES is 1000 in    *)
(* the source; the model runs the same code with a ceiling of 2 entities.  *)
(***************************************************************************)
DEFAULT_TIMEOUT == 30
ERROR_TIMEOUT == 300
MAX_ENTITIES == 2

\* at most MaxClock entities are ever constructed by the poll loop: enough
\* for the registry to exceed its ceiling
MaxClock == MAX_ENTITIES + 1

(***************************************************************************)
(* Generic helpers.                                                        *)
(***************************************************************************)
Range(s) == {s[i] : i \in DOMAIN s}

RECURSIVE SeqRemoveFirst(_, _)
\* list.remove(x): drops the first element equal to x
SeqRemoveFirst(s, x) ==
    IF s = <<>> THEN <<>>
    ELSE IF Head(s) = x THEN Tail(s)
    ELSE <<Head(s)>> \o SeqRemoveFirst(Tail(s), x)

\* the trip a vehicle reports at a time: a vehicle goes on to its next
\* trip, which may be on another route, without changing its entity id; the
\* other descriptors of trip and vehicle are numbered by the time as well
TripAt(ts) == IF ts = 1 THEN "T1" ELSE "T2"
RouteAt(ts) == IF ts = 1 THEN "R1" ELSE "R2"

(***************************************************************************)
(* A feed record (one FeedEntity of the decoded snapshot), flattened.      *)
(* Readings that the reconciler never inspects are derived from one        *)
(* reading value so that inputs stay few.                                  *)
(***************************************************************************)
FeedRecord(id, dir, ts, reading, cars) ==
    [id |-> id, direction_id |-> dir,
     route_id |-> RouteAt(ts), trip_id |-> TripAt(ts),
     schedule_relationship |-> ts % 2,
     start_date |-> ts, start_time |-> ts + 1,
     vehicle_id |-> ts + 2, vehicle_label |-> ts + 3,
     license_plate |-> ts + 4,
     timestamp |-> ts,
     bearing |-> 90 * reading, speed |-> 5 * reading, odometer |-> 100 * reading,
     longitude |-> reading, latitude |-> reading + 1,
     current_status |-> reading, stop_id |-> "S1",
     current_stop_sequence |-> reading + 1,
     occupancy_status |-> reading, occupancy_percentage |-> 10 * reading,
     congestion_level |-> reading,
     multi_carriage_details |-> cars]

\* Entity._timestamp_to_iso: the naive local wall-clock reading of a Unix
\* timestamp; the zone's UTC offset is fixed over the modelled window.
UtcOffset == 7
TimestampToIso(ts) == ts + UtcOffset

(***************************************************************************)
(* Carriage and Entity (Entity.py).                                        *)
(***************************************************************************)
\* Carriage.__init__
CarriageInit(c) ==
    [label |-> c.label, carriage_sequence |-> c.carriage_sequence,
     occupancy_status |-> <<c.occupancy_status>>]

\* faulty variant: the status is appended twice
CarriageUpdate_Twice(car, c) ==
    [car EXCEPT !.occupancy_status = Append(Append(@, c.occupancy_status),
                                            c.occupancy_status)]

\* Carriage.update
CarriageUpdate(car, c) ==
    [car EXCEPT !.occupancy_status = Append(@, c.occupancy_status)]

\* Entity.__init__; now is the value of datetime.now() at construction
EntityInit(r, now) ==
    [entity_id |-> r.id,
     direction_id |-> r.direction_id,
     label |-> r.vehicle_label,
     created |-> now,
     route_id |-> r.route_id,
     trip_id |-> r.trip_id,
     schedule_relationship |-> r.schedule_relationship,
     start_date |-> r.start_date,
     start_time |-> r.start_time,
     vehicle_id |-> r.vehicle_id,
     vehicle_label |-> r.vehicle_label,
     license_plate |-> r.license_plate,
     bearing |-> <<r.bearing>>,
     current_status |-> <<r.current_status>>,
     odometer |-> <<r.odometer>>,
     speed |-> <<r.speed>>,
     stop_id |-> <<r.stop_id>>,
     updated_at |-> <<TimestampToIso(r.timestamp)>>,
     current_stop_sequence |-> <<r.current_stop_sequence>>,
     coordinates |-> << <<r.longitude, r.latitude>> >>,
     occupancy_status |-> <<r.occupancy_status>>,
     occupancy_percentage |-> <<r.occupancy_percentage>>,
     congestion_level |-> <<r.congestion_level>>,
     carriages |-> [i \in DOMAIN r.multi_carriage_details |->
                        CarriageInit(r.multi_carriage_details[i])]]

\* index of the first carriage of the entity with the given label, 0 if none
FirstCarriage(cars, label) ==
    IF \E i \in DOMAIN cars : cars[i].label = label
    THEN CHOOSE i \in DOMAIN cars :
            /\ cars[i].label = label
            /\ \A j \in DOMAIN cars : cars[j].label = label => i <= j
    ELSE 0

RECURSIVE UpdateCarriages(_, _)
\* the loop over entity.vehicle.multi_carriage_details in Entity.update
UpdateCarriages(cars, details) ==
    IF details = <<>> THEN cars
    ELSE LET c == Head(details)
             i == FirstCarriage(cars, c.label)
         IN UpdateCarriages(
                IF i = 0 THEN cars
                ELSE [cars EXCEPT ![i] = CarriageUpdate(cars[i], c)],
                Tail(details))

\* faulty variant: the trip of the latest record is taken over
EntityUpdate_Retrip(e, r) ==
    [e EXCEPT
       !.trip_id = r.trip_id,
       !.bearing = Append(@, r.bearing),
       !.current_status = Append(@, r.current_status),
       !.current_stop_sequence = Append(@, r.current_stop_sequence),
       !.coordinates = Append(@, <<r.longitude, r.latitude>>),
       !.occupancy_status = Append(@, r.occupancy_status),
       !.occupancy_percentage = Append(@, r.occupancy_percentage),
       !.speed = Append(@, r.speed),
       !.odometer = Append(@, r.odometer),
       !.updated_at = Append(@, TimestampToIso(r.timestamp)),
       !.stop_id = Append(@, r.stop_id),
       !.congestion_level = Append(@, r.congestion_level),
       !.carriages = UpdateCarriages(@, r.multi_carriage_details)]

\* faulty variant: the append to stop_id is missing
EntityUpdate_NoStopId(e, r) ==
    [e EXCEPT
       !.bearing = Append(@, r.bearing),
       !.current_status = Append(@, r.current_status),
       !.current_stop_sequence = Append(@, r.current_stop_sequence),
       !.coordinates = Append(@, <<r.longitude, r.latitude>>),
       !.occupancy_status = Append(@, r.occupancy_status),
       !.occupancy_percentage = Append(@, r.occupancy_percentage),
       !.speed = Append(@, r.speed),
       !.odometer = Append(@, r.odometer),
       !.updated_at = Append(@, TimestampToIso(r.timestamp)),
       !.congestion_level = Append(@, r.congestion_level),
       !.carriages = UpdateCarriages(@, r.multi_carriage_details)]

\* Entity.update
EntityUpdate(e, r) ==
    [e EXCEPT
       !.bearing = Append(@, r.bearing),
       !.current_status = Append(@, r.current_status),
       !.current_stop_sequence = Append(@, r.current_stop_sequence),
       !.coordinates = Append(@, <<r.longitude, r.latitude>>),
       !.occupancy_status = Append(@, r.occupancy_status),
       !.occupancy_percentage = Append(@, r.occupancy_percentage),
       !.speed = Append(@, r.speed),
       !.odometer = Append(@, r.odometer),
       !.updated_at = Append(@, TimestampToIso(r.timestamp)),
       !.stop_id = Append(@, r.stop_id),
       !.congestion_level = Append(@, r.congestion_level),
       !.carriages = UpdateCarriages(@, r.multi_carriage_details)]

\* a "Measure" member of temporalProperties
Measure(values, interpolation) ==
    [type |-> "Measure", values |-> values, interpolation |-> interpolation]

\* f"carriage_{carriage.carriage_sequence}_{carriage.label}"
CarriageKey(car) == <<"carriage", car.carriage_sequence, car.label>>

\* the loop over self.carriages in toMFJSON: one member per key, a later
\* carriage with the same key replacing an earlier one
CarriageMeasures(cars) ==
    [k \in {CarriageKey(cars[i]) : i \in DOMAIN cars} |->
        LET last == CHOOSE i \in DOMAIN cars :
                       /\ CarriageKey(cars[i]) = k
                       /\ \A j \in DOMAIN cars : CarriageKey(cars[j]) = k => j <= i
        IN Measure(cars[last].occupancy_status, "Discrete")]

\* faulty variant: the geometry loses the entity's first observation
ToMFJSON_SkipsFirst(e) ==
    [type |-> "FeatureCollection",
     features |-> <<
       [type |-> "Feature",
        temporalGeometry |->
          [type |-> "MovingPoint", coordinates |-> Tail(e.coordinates),
           datetimes |-> Tail(e.updated_at), interpolation |-> "Linear"],
        properties |->
          [trajectory_id |-> 0, entity_id |-> e.entity_id,
           direction_id |-> e.direction_id, trip_id |-> e.trip_id,
           route_id |-> e.route_id],
        temporalProperties |-> <<
          [datetimes |-> e.updated_at,
           bearing |-> Measure(e.bearing, "Linear"),
           current_status |-> Measure(e.current_status, "Discrete"),
           odometer |-> Measure(e.odometer, "Discrete"),
           speed |-> Measure(e.speed, "Linear"),
           stop_id |-> Measure(e.stop_id, "Discrete"),
           current_stop_sequence |->
               Measure(e.current_stop_sequence, "Discrete"),
           occupancy_status |-> Measure(e.occupancy_status, "Discrete"),
           occupancy_percentage |->
               Measure(e.occupancy_percentage, "Discrete"),
           congestion_level |-> Measure(e.congestion_level, "Discrete"),
           carriages |-> CarriageMeasures(e.carriages)] >>] >>]

\* Entity.toMFJSON: the document whose JSON text the method returns (the
\* text holds only lists, strings and numbers, which json.loads gives back
\* as they were); the members carriage_<sequence>_<label> of
\* temporalProperties[0] are gathered under carriages
ToMFJSON(e) ==
    [type |-> "FeatureCollection",
     features |-> <<
       [type |-> "Feature",
        temporalGeometry |->
          [type |-> "MovingPoint", coordinates |-> e.coordinates,
           datetimes |-> e.updated_at, interpolation |-> "Linear"],
        properties |->
          [trajectory_id |-> 0, entity_id |-> e.entity_id,
           direction_id |-> e.direction_id, trip_id |-> e.trip_id,
           route_id |-> e.route_id],
        temporalProperties |-> <<
          [datetimes |-> e.updated_at,
           bearing |-> Measure(e.bearing, "Linear"),
           current_status |-> Measure(e.current_status, "Discrete"),
           odometer |-> Measure(e.odometer, "Discrete"),
           speed |-> Measure(e.speed, "Linear"),
           stop_id |-> Measure(e.stop_id, "Discrete"),
           current_stop_sequence |->
               Measure(e.current_stop_sequence, "Discrete"),
           occupancy_status |-> Measure(e.occupancy_status, "Discrete"),
           occupancy_percentage |->
               Measure(e.occupancy_percentage, "Discrete"),
           congestion_level |-> Measure(e.congestion_level, "Discrete"),
           carriages |-> CarriageMeasures(e.carriages)] >>] >>]

\* one calendar day of local wall-clock time in the unit of the timestamps:
\* local midnight falls between the timestamps 1 and 2
DayLength == 9

\* datetime.datetime.fromisoformat(s).date(): year, month and day are the
\* three parts of this one date
DateOf(iso) == iso \div DayLength

\* faulty variant: the directory is taken from the latest observation
RouteDir_LatestObservation(file_path, e) ==
    <<file_path, "raw", e.route_id, DateOf(e.updated_at[Len(e.updated_at)])>>

\* Entity.save: route_dir,
\* f"{file_path}/raw/{self.route_id}/Year={year}/Month={month:02d}/Day={day:02d}"
RouteDir(file_path, e) ==
    <<file_path, "raw", e.route_id, DateOf(e.updated_at[1])>>

\* the top-level temporal sequences of an entity
TemporalLengths(e) ==
    {Len(e.bearing), Len(e.current_status), Len(e.odometer), Len(e.speed),
     Len(e.stop_id), Len(e.updated_at), Len(e.current_stop_sequence),
     Len(e.coordinates), Len(e.occupancy_status), Len(e.occupancy_percentage),
     Len(e.congestion_level)}

\* len(entity.updated_at): the number of observations the reconciler counts
NumObs(e) == Len(e.updated_at)


(***************************************************************************)
(* State.                                                                  *)
(*   entities   VehiclePositionFeed.entities, the registry (a list)        *)
(*   timeout    VehiclePositionFeed.timeout, the poll interval             *)
(*   clock      number of Entity objects constructed so far; the n-th      *)
(*              constructed entity reads datetime.now() = n                *)
(*   fetched    what get_entities produced in the latest poll cycle        *)
(*   outcomes   per record of the latest snapshot, the branch consume_pb   *)
(*              took for it                                                *)
(*   removed    the entities the latest poll cycle took out of the         *)
(*              registry, with the observation count they left with        *)
(*   saved      the Entity.save calls of the latest poll cycle, in order   *)
(*   colPc      position of collection_thread                              *)
(***************************************************************************)
VARIABLES entities, timeout, clock, fetched, outcomes, removed, saved, colPc

feedVars == <<entities, timeout, clock, fetched, outcomes, removed, saved, colPc>>

(***************************************************************************)
(*   ent        one Entity object driven directly (None before it is       *)
(*              constructed)                                               *)
(*   appends    number of Entity.update calls made on ent                  *)
(*   mfjson     the document the latest ent.toMFJSON() call returned       *)
(*   savedFiles the files ent.save(file_path) calls have written: their    *)
(*              directory, body, and the day on which the call was made    *)
(*   reports    per carriage label, the number of records handed to ent    *)
(*              (constructor included) that reported a carriage with it    *)
(***************************************************************************)
VARIABLES ent, appends, mfjson, savedFiles, reports

entVars == <<ent, appends, mfjson, savedFiles, reports>>

(***************************************************************************)
(*   shutdown   main._shutdown_event is set                                *)
(*   aggPc      position of aggregation_thread                             *)
(*   last_aggregation   aggregation_thread's last_aggregation is not None  *)
(***************************************************************************)
VARIABLES shutdown, aggPc, last_aggregation

mainVars == <<shutdown, aggPc, last_aggregation>>

(***************************************************************************)
(* The aggregator run (TrajectoryAggregator.aggregate_all) of one agency.  *)
(*   raw        per route/day partition, the contents of its *.mfjson      *)
(*              files in sorted file-name order (never rewritten)          *)
(*   onDisk     per partition, the positions of the raw files not unlinked *)
(*   opts       the arguments of aggregate_all                             *)
(*   run        position of aggregate_all: the partition it is at and the  *)
(*              call it makes next                                         *)
(*   cur        what aggregate_day returned for the partition              *)
(*   artifact   per partition, the merged artifact on the local disk and   *)
(*              in the bucket, and how far save_aggregated got             *)
(*   statsOut   per partition, what save_segment_stats did                 *)
(*   totals     total_aggregated and total_failed                          *)
(***************************************************************************)
VARIABLES raw, onDisk, opts, run, cur, artifact, statsOut, totals

aggVars == <<raw, onDisk, opts, run, cur, artifact, statsOut, totals>>

(***************************************************************************)
(* One SegmentMatcher instance (SegmentMatcher.py) and its static index.   *)
(*   segment_index  GTFSStaticManager.segment_index: per (route,           *)
(*                  direction) the list of its segments                    *)
(*   feature        the feature last handed to match_trajectory, as the    *)
(*                  call left it                                           *)
(*   matchReturn    what that call returned                                *)
(*   counts         matched_count and null_count                           *)
(*   calls          number of match_trajectory calls made so far           *)
(*   accepted       history: the stop-sequence observations of the         *)
(*                  features for which match_trajectory returned True,     *)
(*                  and the non-null segment ids attached to them          *)
(*   pcts           the occupancy_percentage values of the observations    *)
(*                  compute_segment_statistics grouped under one segment,  *)
(*                  in hundredths (Null for None)                          *)
(*   occupancy_stats  the occupancy_stats it built for that segment        *)
(***************************************************************************)
VARIABLES segment_index, feature, matchReturn, counts, calls, accepted,
          pcts, occupancy_stats

segVars == <<segment_index, feature, matchReturn, counts, calls, accepted,
             pcts, occupancy_stats>>

(***************************************************************************)
(* The calendar view of one route: the poll loop saves finalized entities  *)
(* into day partitions (Entity.save) while aggregation_thread merges the   *)
(* prior day's partition once a day.                                       *)
(*   now        wall clock: the day and the part of the day (before 02:00, *)
(*              the hour from 02:00, from 03:00 on)                        *)
(*   tracked    the registry entity of the route's vehicle: the day of its *)
(*              first observation (0 when there is none) and its number of *)
(*              observations                                               *)
(*   partition  per day, the raw files in raw/<route>/.../Day=<day>, the   *)
(*              files merged into the day's artifact, the raw files        *)
(*              written since aggregate_all last ran for the day, and      *)
(*              whether it has run for the day                             *)
(*   lastAggDay the day of last_aggregation (0 for None)                   *)
(***************************************************************************)
VARIABLES now, tracked, partition, lastAggDay

dayVars == <<now, tracked, partition, lastAggDay>>

(***************************************************************************)
(* The S3 bucket as upload_file (s3Uploader.py) sees it.                   *)
(*   objects    per object name, the body stored under it                  *)
(*   upload     the latest upload_file call: its arguments, what the S3    *)
(*              client did, and how the call ended                         *)
(*   uploads    number of upload_file calls made so far                    *)
(***************************************************************************)
VARIABLES objects, upload, uploads

s3Vars == <<objects, upload, uploads>>

(***************************************************************************)
(* aggregate_day with a segment matcher: the features of one route/day.    *)
(*   day_features   all_features: the features collected so far, as         *)
(*                  match_trajectory left them                             *)
(*   segment_stats  what compute_segment_statistics returned for them      *)
(***************************************************************************)
VARIABLES day_features, segment_stats

batchVars == <<day_features, segment_stats>>

vars == <<feedVars, entVars, mainVars, aggVars, segVars, dayVars, s3Vars,
          batchVars>>

\* what the steps of the poll loop leave alone
FeedFrame == UNCHANGED <<entVars, mainVars, aggVars, segVars, dayVars, s3Vars, batchVars>>

(***************************************************************************)
(* VehiclePositionFeed (VehiclePositionFeed.py).  A reconciler state is    *)
(* the record [entities, clock, outcomes, removed, saved, current_ids].    *)
(***************************************************************************)
\* faulty variant: the lookup never finds the entity
FindEntity_NeverFinds(ents, id) == 0

\* find_entity: index of the first registry entity with the id, 0 for None
FindEntity(ents, id) ==
    IF \E i \in DOMAIN ents : ents[i].entity_id = id
    THEN CHOOSE i \in DOMAIN ents :
            /\ ents[i].entity_id = id
            /\ \A j \in DOMAIN ents : ents[j].entity_id = id => i <= j
    ELSE 0

\* faulty variant: picks the entity created last
OldestIndex_Newest(ents) ==
    CHOOSE i \in DOMAIN ents :
        \A j \in DOMAIN ents : ents[j].created <= ents[i].created

\* min(self.entities, key=lambda e: e.created): first entity of least created
OldestIndex(ents) ==
    CHOOSE i \in DOMAIN ents :
        /\ \A j \in DOMAIN ents : ents[i].created <= ents[j].created
        /\ \A j \in DOMAIN ents : ents[j].created = ents[i].created => i <= j

\* faulty variant: saves every finalized entity, whatever its observation count
SaveIfQualified_Always(st, e) ==
    [st EXCEPT !.saved = Append(@, [uid |-> e.created,
                                    entity_id |-> e.entity_id,
                                    nobs |-> NumObs(e),
                                    written |-> st.disk = "ok"])]

\* "if len(entity.updated_at) > 1: entity.save(self.file_path)"; Entity.save
\* writes the file, or catches the OSError of a failing disk and returns
SaveIfQualified(st, e) ==
    IF NumObs(e) > 1
    THEN [st EXCEPT !.saved = Append(@, [uid |-> e.created,
                                         entity_id |-> e.entity_id,
                                         nobs |-> NumObs(e),
                                         written |-> st.disk = "ok"])]
    ELSE st

\* faulty variant: an entity whose file could not be written stays in the
\* registry
Finalize_KeepsUnwritten(st, e, why) ==
    LET s1 == SaveIfQualified(st, e)
    IN IF NumObs(e) > 1 /\ st.disk # "ok" THEN s1
       ELSE [s1 EXCEPT
               !.entities = SeqRemoveFirst(@, e),
               !.removed = @ \cup {[uid |-> e.created,
                                    entity_id |-> e.entity_id,
                                    nobs |-> NumObs(e), why |-> why]}]

\* faulty variant: saves the entity but leaves it in the registry
Finalize_NoRemove(st, e, why) ==
    LET s1 == SaveIfQualified(st, e)
    IN [s1 EXCEPT
          !.removed = @ \cup {[uid |-> e.created, entity_id |-> e.entity_id,
                               nobs |-> NumObs(e), why |-> why]}]

\* finalize one entity: save it if it qualifies, then self.entities.remove
Finalize(st, e, why) ==
    LET s1 == SaveIfQualified(st, e)
    IN [s1 EXCEPT
          !.entities = SeqRemoveFirst(@, e),
          !.removed = @ \cup {[uid |-> e.created, entity_id |-> e.entity_id,
                               nobs |-> NumObs(e), why |-> why]}]

\* faulty variant: evicts as soon as the registry has reached the ceiling
CheckMemoryLimit_AtCeiling(st) ==
    IF Len(st.entities) >= MAX_ENTITIES
    THEN Finalize(st, st.entities[OldestIndex(st.entities)], "ceiling")
    ELSE st

\* _check_memory_limit
CheckMemoryLimit(st) ==
    IF Len(st.entities) > MAX_ENTITIES
    THEN Finalize(st, st.entities[OldestIndex(st.entities)], "ceiling")
    ELSE st

\* Entity(feed_entity); self.entities.append(entity)
CreateEntity(st, r, how) ==
    [st EXCEPT
       !.clock = @ + 1,
       !.entities = Append(@, EntityInit(r, st.clock + 1)),
       !.outcomes = Append(@, how)]

\* faulty variant: only the first incoming record gets an entity
Bootstrap_FirstOnly(st, recs) ==
    IF recs = <<>> THEN st
    ELSE CreateEntity(st, Head(recs), "bootstrap")

RECURSIVE Bootstrap(_, _)
\* consume_pb, registry empty: one entity per incoming record
Bootstrap(st, recs) ==
    IF recs = <<>> THEN st
    ELSE Bootstrap(CreateEntity(st, Head(recs), "bootstrap"), Tail(recs))

\* faulty variant: the id is not recorded as seen in this cycle
MarkSeen_Forgotten(st, id) == st

\* current_ids.append(feed_entity.id)
MarkSeen(st, id) == [st EXCEPT !.current_ids = @ \cup {id}]

\* faulty variant: a record of the entity's direction is appended whatever
\* its timestamp
ReconcileOne_AlwaysAppends(st, r) ==
    LET i == FindEntity(st.entities, r.id)
        seen == MarkSeen(st, r.id)
    IN IF i = 0
       THEN CreateEntity(seen, r, "created")
       ELSE LET e == st.entities[i]
            IN IF e.direction_id = r.direction_id
               THEN [seen EXCEPT
                       !.entities[i] = EntityUpdate(e, r),
                       !.outcomes = Append(@, "updated")]
               ELSE IF e.updated_at[Len(e.updated_at)] # TimestampToIso(r.timestamp)
               THEN CreateEntity(Finalize(seen, e, "direction"), r,
                                 "direction_changed")
               ELSE [seen EXCEPT !.outcomes = Append(@, "duplicate")]

\* faulty variant: the direction is compared before the timestamp
ReconcileOne_DirectionFirst(st, r) ==
    LET i == FindEntity(st.entities, r.id)
        seen == MarkSeen(st, r.id)
    IN IF i = 0
       THEN CreateEntity(seen, r, "created")
       ELSE LET e == st.entities[i]
            IN IF e.direction_id # r.direction_id
               THEN CreateEntity(Finalize(seen, e, "direction"), r,
                                 "direction_changed")
               ELSE IF e.updated_at[Len(e.updated_at)] # TimestampToIso(r.timestamp)
                    THEN [seen EXCEPT
                            !.entities[i] = EntityUpdate(e, r),
                            !.outcomes = Append(@, "updated")]
                    ELSE [seen EXCEPT !.outcomes = Append(@, "duplicate")]

\* consume_pb, registry non-empty: the body of the loop over feed_entities
ReconcileOne(st, r) ==
    LET i == FindEntity(st.entities, r.id)
        seen == MarkSeen(st, r.id)
    IN IF i = 0
       THEN CreateEntity(seen, r, "created")
       ELSE LET e == st.entities[i]
            IN IF e.updated_at[Len(e.updated_at)] # TimestampToIso(r.timestamp)
               THEN IF e.direction_id = r.direction_id
                    THEN [seen EXCEPT
                            !.entities[i] = EntityUpdate(e, r),
                            !.outcomes = Append(@, "updated")]
                    ELSE CreateEntity(Finalize(seen, e, "direction"), r,
                                      "direction_changed")
               ELSE [seen EXCEPT !.outcomes = Append(@, "duplicate")]

RECURSIVE Reconcile(_, _)
Reconcile(st, recs) ==
    IF recs = <<>> THEN st
    ELSE Reconcile(ReconcileOne(st, Head(recs)), Tail(recs))

\* faulty variant: entities missing from the snapshot stay in the registry
Sweep_Nothing(st, ids) == st

RECURSIVE Sweep(_, _)
\* consume_pb: "for id in ids_to_remove"
Sweep(st, ids) ==
    IF ids = {} THEN st
    ELSE LET id == CHOOSE x \in ids : TRUE
             i == FindEntity(st.entities, id)
         IN Sweep(IF i = 0 THEN st ELSE Finalize(st, st.entities[i], "sweep"),
                  ids \ {id})

\* consume_pb after the fetch returned a non-empty list of vehicles
Process(st, recs) ==
    IF Len(st.entities) = 0
    THEN Bootstrap(st, recs)
    ELSE LET s1 == Reconcile(st, recs)
             old_ids == {s1.entities[i].entity_id : i \in DOMAIN s1.entities}
         IN Sweep(s1, old_ids \ s1.current_ids)

(***************************************************************************)
(* get_entities: the outcome of one fetch.                                 *)
(***************************************************************************)
\* fetch failures after which get_entities returns an empty list: "logged" is
\* DecodeError, Timeout, TooManyRedirects or SSLError (each only logged),
\* "unknown" any other Exception (which also escalates the poll interval)
RecoverableKinds == {"logged", "unknown"}

RECURSIVE BuildSnapshot(_, _)
\* the records of a snapshot, one per reported id
BuildSnapshot(f, i) ==
    IF i > Len(Ids) THEN <<>>
    ELSE (IF f[i] = <<>> THEN <<>>
          ELSE <<FeedRecord(Ids[i], f[i][1], f[i][2], 0, <<>>)>>)
         \o BuildSnapshot(f, i + 1)

\* feed snapshots: every id reported at most once
Snapshots ==
    {BuildSnapshot(f, 1) :
        f \in {g \in [1..Len(Ids) -> {<<>>} \cup (Directions \X Times)] :
                 \A i \in 1..Len(Ids) :
                     \/ g[i] = <<>>
                     \/ /\ g[i][1] \in DirectionsOf(Ids[i])
                        /\ g[i][2] \in TimesOf(Ids[i])}}

FetchResults ==
    {[kind |-> "ok", vehicles |-> v] : v \in Snapshots}
    \cup {[kind |-> k, vehicles |-> <<>>] : k \in RecoverableKinds}
    \cup {[kind |-> "fatal", vehicles |-> <<>>]}

\* the reconciler state at the start of a poll cycle
CycleStart ==
    [entities |-> entities, clock |-> clock, outcomes |-> <<>>,
     removed |-> {}, saved |-> <<>>, current_ids |-> {}, disk |-> "ok"]

\* the condition of the data directory during one cycle: writable, or every
\* os.makedirs/open of Entity.save raising OSError
DiskStates == {"ok", "failing"}

WithDisk(st, d) == [st EXCEPT !.disk = d]

\* the conditions under which a cycle can meet the disk: only an entity
\* with more than one observation is ever written
DiskConditions ==
    IF \E i \in DOMAIN entities : NumObs(entities[i]) > 1
    THEN DiskStates
    ELSE {"ok"}

\* the model's bounds on a reconciler state
WithinBounds(st) ==
    /\ st.clock <= MaxClock
    /\ \A i \in DOMAIN st.entities : NumObs(st.entities[i]) <= MaxObs

\* publish a reconciler state
Publish(st) ==
    /\ entities' = st.entities
    /\ clock' = st.clock
    /\ outcomes' = st.outcomes
    /\ removed' = st.removed
    /\ saved' = st.saved

(***************************************************************************)
(* One iteration of collection_thread: feed.consume_pb().                  *)
(***************************************************************************)
\* consume_pb, entered with the thread at position at: the fetch raised
\* SystemExit; it is no Exception, so the thread ends
PollFatalAt(at) ==
    /\ colPc = at
    /\ \E d \in DiskConditions :
          /\ Publish(CheckMemoryLimit(WithDisk(CycleStart, d)))
          /\ fetched' = [kind |-> "fatal", vehicles |-> <<>>]
          /\ timeout' = timeout
          /\ colPc' = "killed"
          /\ FeedFrame

\* one iteration of the loop (test, consume_pb, wait) ended by SystemExit
PollFatal == ~shutdown /\ PollFatalAt("loop")

\* faulty variant: a skipped cycle leaves the poll interval as it is
PollSkippedAt_KeepsInterval(at, after) ==
    /\ colPc = at
    /\ \E fr \in FetchResults :
         /\ fr.kind # "fatal"
         /\ Len(fr.vehicles) = 0
         /\ \E d \in DiskConditions :
               Publish(CheckMemoryLimit(WithDisk(CycleStart, d)))
         /\ fetched' = fr
         /\ timeout' = timeout
         /\ colPc' = after
         /\ FeedFrame

\* consume_pb, entered with the thread at position at and leaving it at
\* position after: the fetch produced no vehicles, the cycle is skipped
PollSkippedAt(at, after) ==
    /\ colPc = at
    /\ \E fr \in FetchResults :
         /\ fr.kind # "fatal"
         /\ Len(fr.vehicles) = 0
         /\ \E d \in DiskConditions :
               Publish(CheckMemoryLimit(WithDisk(CycleStart, d)))
         /\ fetched' = fr
         /\ timeout' = ERROR_TIMEOUT
         /\ colPc' = after
         /\ FeedFrame

\* one iteration of the loop (test, consume_pb, wait) with a skipped cycle
PollSkipped == ~shutdown /\ PollSkippedAt("loop", "loop")

\* faulty variant: a processed cycle puts the poll interval back to its
\* default
PollProcessedAt_ResetsInterval(S, at, after) ==
    /\ colPc = at
    /\ \E v \in S :
         /\ Len(v) > 0
         /\ \E d \in DiskConditions :
               \E st \in {Process(CheckMemoryLimit(WithDisk(CycleStart, d)), v)} :
                  /\ WithinBounds(st)
                  /\ Publish(st)
         /\ fetched' = [kind |-> "ok", vehicles |-> v]
         /\ timeout' = DEFAULT_TIMEOUT
         /\ colPc' = after
         /\ FeedFrame

\* consume_pb, entered at position at and left at position after: the fetch
\* produced one of the snapshots S: bootstrap, or reconcile and sweep
PollProcessedAt(S, at, after) ==
    /\ colPc = at
    /\ \E v \in S :
         /\ Len(v) > 0
         /\ \E d \in DiskConditions :
               \E st \in {Process(CheckMemoryLimit(WithDisk(CycleStart, d)), v)} :
                  /\ WithinBounds(st)
                  /\ Publish(st)
         /\ fetched' = [kind |-> "ok", vehicles |-> v]
         /\ timeout' = timeout
         /\ colPc' = after
         /\ FeedFrame

\* one iteration of the loop (test, consume_pb, wait) on a snapshot of S
PollProcessedOn(S) == ~shutdown /\ PollProcessedAt(S, "loop", "loop")

PollProcessed == PollProcessedOn(Snapshots)

FeedInit ==
    /\ entities = <<>>
    /\ timeout = DEFAULT_TIMEOUT
    /\ clock = 0
    /\ fetched = [kind |-> "none", vehicles |-> <<>>]
    /\ outcomes = <<>>
    /\ removed = {}
    /\ saved = <<>>
    /\ colPc = "loop"

(***************************************************************************)
(* An Entity driven directly: Entity(record), then entity.update(record).  *)
(***************************************************************************)
None == [none |-> TRUE]

\* carriage sub-records a feed record may carry
CarriageDetail(label, seq, status) ==
    [label |-> label, carriage_sequence |-> seq, occupancy_status |-> status]

CarriageReports(reading) ==
    {<<>>,
     <<CarriageDetail("A", 1, reading)>>,
     <<CarriageDetail("B", 2, reading)>>,
     <<CarriageDetail("A", 1, reading), CarriageDetail("B", 2, reading)>>}

Routes == {"R1", "R2"}

CarriageLabels == {"A", "B"}

\* the carriage labels a record reports
LabelsOf(r) ==
    {r.multi_carriage_details[i].label : i \in DOMAIN r.multi_carriage_details}

\* reports after one more record
Reported(sofar, r) ==
    [l \in CarriageLabels |->
        IF l \in LabelsOf(r) THEN sofar[l] + 1 ELSE sofar[l]]

\* the records handed to an Entity directly
EntityRecords ==
    UNION {{[FeedRecord("v1", d, ts, reading, cars) EXCEPT !.route_id = rt] :
                d \in Directions, ts \in Times, cars \in CarriageReports(reading),
                rt \in Routes} :
           reading \in {0, 1}}

EntityFrame == UNCHANGED <<feedVars, mainVars, aggVars, segVars, dayVars, s3Vars, batchVars>>

\* entity = Entity(record)
EntityCreate ==
    /\ ent = None
    /\ \E r \in EntityRecords :
          /\ ent' = EntityInit(r, 1)
          /\ reports' = Reported(reports, r)
    /\ appends' = 0
    /\ UNCHANGED <<mfjson, savedFiles>>
    /\ EntityFrame

\* entity.update(record)
EntityAppend ==
    /\ ent # None
    /\ NumObs(ent) < MaxObs
    /\ \E r \in EntityRecords :
          /\ ent' = EntityUpdate(ent, r)
          /\ reports' = Reported(reports, r)
    /\ appends' = appends + 1
    /\ UNCHANGED <<mfjson, savedFiles>>
    /\ EntityFrame

\* no toMFJSON call made yet
NoDocument == [type |-> "None", features |-> <<>>]

\* entity.toMFJSON()
EntitySerialize ==
    /\ ent # None
    /\ mfjson' = ToMFJSON(ent)
    /\ ent' = ent
    /\ appends' = appends
    /\ UNCHANGED <<savedFiles, reports>>
    /\ EntityFrame

DataRoot == "data"

\* the days on which a save call can be made: not before the entity's
\* latest observation
SaveDays(e) == {d \in 0..2 : d >= DateOf(e.updated_at[Len(e.updated_at)])}

\* entity.save(file_path), called on the day today: the file is written
\* under route_dir, or the OSError of a failing disk is caught.  An entity
\* is saved once, when it is finalized or evicted.
EntitySave ==
    /\ ent # None
    /\ savedFiles = {}
    /\ \E today \in SaveDays(ent), d \in DiskStates :
          savedFiles' = IF d = "ok"
                        THEN savedFiles \cup {[dir |-> RouteDir(DataRoot, ent),
                                               body |-> ToMFJSON(ent),
                                               saved_on |-> today]}
                        ELSE savedFiles
    /\ UNCHANGED <<ent, appends, mfjson, reports>>
    /\ EntityFrame

EntityIdle ==
    /\ ent = None
    /\ appends = 0
    /\ mfjson = NoDocument
    /\ savedFiles = {}
    /\ reports = [l \in CarriageLabels |-> 0]

(***************************************************************************)
(* main.py: the signal handler and the two threads.  collection_thread is  *)
(* "while not _shutdown_event.is_set(): feed.consume_pb(); wait(timeout)": *)
(* the Poll actions above are its iterations.                              *)
(***************************************************************************)
MainFrame == UNCHANGED <<entVars, aggVars, segVars, dayVars, s3Vars, batchVars>>

\* signal_handler
SignalHandler ==
    /\ ~shutdown
    /\ shutdown' = TRUE
    /\ UNCHANGED <<feedVars, aggPc, last_aggregation>>
    /\ MainFrame

\* faulty variant: the thread finalizes the whole registry before it returns
CollectionExit_Flushes ==
    /\ colPc = "loop"
    /\ shutdown
    /\ colPc' = "exited"
    /\ Publish(Sweep(CycleStart,
                     {entities[i].entity_id : i \in DOMAIN entities}))
    /\ UNCHANGED <<timeout, fetched>>
    /\ UNCHANGED mainVars
    /\ MainFrame

\* collection_thread: the while test fails and the thread returns
CollectionExit ==
    /\ colPc = "loop"
    /\ shutdown
    /\ colPc' = "exited"
    /\ UNCHANGED <<entities, timeout, clock, fetched, outcomes, removed, saved>>
    /\ UNCHANGED mainVars
    /\ MainFrame

\* collection_thread: the while test passes and a cycle begins
CycleBegin ==
    /\ colPc = "loop"
    /\ ~shutdown
    /\ colPc' = "cycle"
    /\ UNCHANGED <<entities, timeout, clock, fetched, outcomes, removed, saved>>
    /\ UNCHANGED mainVars
    /\ MainFrame

\* collection_thread: consume_pb of the cycle, then the thread waits
CycleFatal == PollFatalAt("cycle")

CycleSkipped == PollSkippedAt("cycle", "wait")

CycleProcessedOn(S) == PollProcessedAt(S, "cycle", "wait")

\* faulty variant: the exception ends the thread
CycleRaised_EndsThread ==
    /\ colPc = "cycle"
    /\ colPc' = "killed"
    /\ UNCHANGED <<entities, timeout, clock, fetched, outcomes, removed, saved>>
    /\ UNCHANGED mainVars
    /\ MainFrame

\* collection_thread: consume_pb raised an Exception before it changed the
\* registry; it is logged and the thread waits
CycleRaised ==
    /\ colPc = "cycle"
    /\ colPc' = "wait"
    /\ UNCHANGED <<entities, timeout, clock, fetched, outcomes, removed, saved>>
    /\ UNCHANGED mainVars
    /\ MainFrame

\* collection_thread: _shutdown_event.wait(feed.timeout) returns, because
\* the event is set or the timeout has passed
CollectionWake ==
    /\ colPc = "wait"
    /\ colPc' = "loop"
    /\ UNCHANGED <<entities, timeout, clock, fetched, outcomes, removed, saved>>
    /\ UNCHANGED mainVars
    /\ MainFrame

\* aggregation_thread: the while test passes and a pass of the body begins
AggregationBegin ==
    /\ aggPc = "loop"
    /\ ~shutdown
    /\ aggPc' = "pass"
    /\ UNCHANGED <<feedVars, shutdown, last_aggregation>>
    /\ MainFrame

\* faulty variant: the loop does not look at the shutdown event and goes
\* back to sleep
AggregationExit_BackToSleep ==
    /\ aggPc = "loop"
    /\ shutdown
    /\ aggPc' = "wait"
    /\ UNCHANGED <<feedVars, shutdown, last_aggregation>>
    /\ MainFrame

\* aggregation_thread: one pass of the loop body up to the wait; should_run
\* depends on the wall clock, aggregate_all may succeed or raise (caught)
AggregationPass ==
    /\ aggPc = "pass"
    /\ \E should_run \in BOOLEAN, raised \in BOOLEAN :
         last_aggregation' = IF should_run /\ ~raised THEN TRUE
                             ELSE last_aggregation
    /\ aggPc' = "wait"
    /\ UNCHANGED <<feedVars, shutdown>>
    /\ MainFrame

\* aggregation_thread: _shutdown_event.wait(300) returns
AggregationWake ==
    /\ aggPc = "wait"
    /\ aggPc' = "loop"
    /\ UNCHANGED <<feedVars, shutdown, last_aggregation>>
    /\ MainFrame

\* aggregation_thread: the while test fails and the thread returns
AggregationExit ==
    /\ aggPc = "loop"
    /\ shutdown
    /\ aggPc' = "exited"
    /\ UNCHANGED <<feedVars, shutdown, last_aggregation>>
    /\ MainFrame

MainIdle ==
    /\ shutdown = FALSE
    /\ aggPc = "loop"
    /\ last_aggregation = FALSE

(***************************************************************************)
(* TrajectoryAggregator.py.                                                *)
(***************************************************************************)
\* at most MaxFiles raw files in the first route/day partition
MaxFiles == 2

\* the route/day partitions find_date_ranges yields, in sorted order
Partitions == <<"Day=01", "Day=02">>

\* a key or result that is absent (Python None / missing key)
NoValue == "None"

\* no merged collection (aggregate_day returned None for it)
NoCollection == [type |-> NoValue, features |-> <<>>]

\* the trajectory_id of a feature that carries none
NoId == -1

\* a feature of a raw file: src and pos say where it was read from;
\* has_properties is whether the feature has a "properties" block
Feature(src, pos, props, tid) ==
    [src |-> src, pos |-> pos, has_properties |-> props, trajectory_id |-> tid]

FileKinds == {"garbage", "not_collection", "empty", "one", "bare", "two"}

\* the content of the raw file at position i of a partition
FileContent(kind, i) ==
    CASE kind = "garbage" -> [type |-> "unparseable", features |-> <<>>]
      [] kind = "not_collection" -> [type |-> "Feature", features |-> <<>>]
      [] kind = "empty" -> [type |-> "FeatureCollection", features |-> <<>>]
      [] kind = "one" -> [type |-> "FeatureCollection",
                          features |-> <<Feature(i, 1, TRUE, 0)>>]
      [] kind = "bare" -> [type |-> "FeatureCollection",
                           features |-> <<Feature(i, 1, FALSE, NoId)>>]
      [] kind = "two" -> [type |-> "FeatureCollection",
                          features |-> <<Feature(i, 1, TRUE, 0),
                                         Feature(i, 2, TRUE, 7)>>]

\* the raw partitions an aggregator run may find
RawStores ==
    {[p \in DOMAIN Partitions |->
        IF p = 1 THEN [i \in DOMAIN ks |-> FileContent(ks[i], i)]
        ELSE IF second THEN <<FileContent("one", 1)>> ELSE <<>>] :
     ks \in UNION {[1..n -> FileKinds] : n \in 0..MaxFiles},
     second \in BOOLEAN}

RECURSIVE SetToSortedSeq(_)
\* sorted(day_dir.glob("*.mfjson")): the present files by position
SetToSortedSeq(S) ==
    IF S = {} THEN <<>>
    ELSE LET m == CHOOSE x \in S : \A y \in S : x <= y
         IN <<m>> \o SetToSortedSeq(S \ {m})

RECURSIVE AssignIds(_, _)
\* faulty variant: trajectory ids are numbered from 1
AssignIds_FromOne(features, idx) ==
    IF features = <<>> THEN <<>>
    ELSE <<(IF Head(features).has_properties
            THEN [Head(features) EXCEPT !.trajectory_id = idx + 1]
            ELSE Head(features))>>
         \o AssignIds(Tail(features), idx + 1)

\* aggregate_trajectories: "for idx, feature in enumerate(features)"
AssignIds(features, idx) ==
    IF features = <<>> THEN <<>>
    ELSE <<(IF Head(features).has_properties
            THEN [Head(features) EXCEPT !.trajectory_id = idx]
            ELSE Head(features))>>
         \o AssignIds(Tail(features), idx + 1)

\* aggregate_trajectories
AggregateTrajectories(features) ==
    [type |-> "FeatureCollection", features |-> AssignIds(features, 0)]

RECURSIVE CollectFeatures(_, _)
\* aggregate_day: the loop over mfjson_files; a file that does not parse
\* raises in load_mfjson and is skipped, one that is no FeatureCollection
\* is logged and skipped
CollectFeatures(files, names) ==
    IF names = <<>> THEN <<>>
    ELSE (IF files[Head(names)].type = "FeatureCollection"
          THEN files[Head(names)].features
          ELSE <<>>)
         \o CollectFeatures(files, Tail(names))

\* aggregate_day; stats is what compute_segment_statistics returned when a
\* segment matcher is in use
AggregateDay(files, present, stats) ==
    LET mfjson_files == SetToSortedSeq(present)
        all_features == CollectFeatures(files, mfjson_files)
    IN IF mfjson_files = <<>> \/ all_features = <<>>
       THEN [aggregated |-> NoCollection, raw_files |-> <<>>, segment_stats |-> NoValue]
       ELSE [aggregated |-> AggregateTrajectories(all_features),
             raw_files |-> mfjson_files,
             segment_stats |-> stats]

\* find_date_ranges for the route: one (year, month, day) per Day=*
\* directory under its Year=*/Month=* directories, whatever the directory
\* holds; dirs gives per day directory its files, present the ones not
\* unlinked (unlinking a file leaves its directory)
FindDateRanges(dirs, present) == DOMAIN dirs

NoArtifact == [local |-> NoCollection, s3 |-> NoCollection, written |-> FALSE,
               upload |-> "none", result |-> "none"]

AggFrame == UNCHANGED <<feedVars, entVars, mainVars, segVars, dayVars, s3Vars, batchVars>>

\* aggregate_all moves on to the next (y, m, d) of the loop
NextPartition == [pc |-> "day", p |-> run.p + 1]

\* aggregate_all: the call of aggregate_day for the partition
RunAggregateDay ==
    /\ run.pc = "day"
    /\ run.p <= Len(Partitions)
    /\ \E stats \in IF opts.gtfs THEN {"stats", "empty"} ELSE {NoValue} :
         LET res == AggregateDay(raw[run.p], onDisk[run.p], stats)
         IN /\ cur' = res
            /\ run' = IF res.aggregated = NoCollection THEN NextPartition
                       ELSE [run EXCEPT !.pc = "save"]
    /\ UNCHANGED <<raw, onDisk, opts, artifact, statsOut, totals>>
    /\ AggFrame

\* faulty variant: the local file is deleted after any upload attempt
SaveAggregated_DeletesAfterAttempt(data, how) ==
    LET wrote == [NoArtifact EXCEPT !.local = data, !.written = TRUE]
    IN CASE how = "write_failed" -> [NoArtifact EXCEPT !.result = "failed"]
         [] how = "upload_failed" ->
              [wrote EXCEPT !.upload = "failed", !.result = "failed",
                            !.local = IF opts.delete_after_upload
                                      THEN NoCollection ELSE data]
         [] how = "unlink_failed" ->
              [wrote EXCEPT !.s3 = data, !.upload = "ok", !.result = "failed"]
         [] how = "ok" ->
              IF opts.s3_bucket
              THEN [wrote EXCEPT !.s3 = data, !.upload = "ok", !.result = "ok",
                                 !.local = IF opts.delete_after_upload
                                           THEN NoCollection ELSE data]
              ELSE [wrote EXCEPT !.result = "ok"]

\* faulty variant: a failed upload is reported as success
SaveAggregated_UploadIgnored(data, how) ==
    LET wrote == [NoArtifact EXCEPT !.local = data, !.written = TRUE]
    IN CASE how = "write_failed" -> [NoArtifact EXCEPT !.result = "failed"]
         [] how = "upload_failed" ->
              [wrote EXCEPT !.upload = "failed", !.result = "ok"]
         [] how = "unlink_failed" ->
              [wrote EXCEPT !.s3 = data, !.upload = "ok", !.result = "failed"]
         [] how = "ok" ->
              IF opts.s3_bucket
              THEN [wrote EXCEPT !.s3 = data, !.upload = "ok", !.result = "ok",
                                 !.local = IF opts.delete_after_upload
                                           THEN NoCollection ELSE data]
              ELSE [wrote EXCEPT !.result = "ok"]

\* save_aggregated, as far as the environment lets it get:
\*   "write_failed"   mkdir/open/json.dump raised: (False, None)
\*   "upload_failed"  upload_file returned False: (False, path)
\*   "unlink_failed"  the upload worked, deleting the local file raised
\*   "ok"             (True, path)
SaveAggregated(data, how) ==
    LET wrote == [NoArtifact EXCEPT !.local = data, !.written = TRUE]
    IN CASE how = "write_failed" -> [NoArtifact EXCEPT !.result = "failed"]
         [] how = "upload_failed" ->
              [wrote EXCEPT !.upload = "failed", !.result = "failed"]
         [] how = "unlink_failed" ->
              [wrote EXCEPT !.s3 = data, !.upload = "ok", !.result = "failed"]
         [] how = "ok" ->
              IF opts.s3_bucket
              THEN [wrote EXCEPT !.s3 = data, !.upload = "ok", !.result = "ok",
                                 !.local = IF opts.delete_after_upload
                                           THEN NoCollection ELSE data]
              ELSE [wrote EXCEPT !.result = "ok"]

\* the ways save_aggregated can end under the given options
SaveWays ==
    {"write_failed", "ok"}
    \cup (IF opts.s3_bucket THEN {"upload_failed"} ELSE {})
    \cup (IF opts.s3_bucket /\ opts.delete_after_upload
          THEN {"unlink_failed"} ELSE {})

\* aggregate_all: "success, _ = save_aggregated(...)" and the counting
RunSaveAggregated ==
    /\ run.pc = "save"
    /\ \E how \in SaveWays :
         LET a == SaveAggregated(cur.aggregated, how)
         IN /\ artifact' = [artifact EXCEPT ![run.p] = a]
            /\ IF a.result = "ok"
               THEN /\ totals' = [totals EXCEPT !.aggregated = @ + 1]
                    /\ run' = [run EXCEPT !.pc = IF cur.segment_stats = "stats"
                                                 THEN "stats" ELSE "delete"]
               ELSE /\ totals' = [totals EXCEPT !.failed = @ + 1]
                    /\ run' = NextPartition
    /\ UNCHANGED <<raw, onDisk, opts, cur, statsOut>>
    /\ AggFrame

\* faulty variant: a failed save_segment_stats ends the handling of the day
RunSaveSegmentStats_FailureEndsDay ==
    /\ run.pc = "stats"
    /\ \E how \in {"write_failed", "ok"}
                  \cup (IF opts.s3_bucket THEN {"upload_failed"} ELSE {}) :
         /\ statsOut' = [statsOut EXCEPT ![run.p] = how]
         /\ run' = IF how = "ok" THEN [run EXCEPT !.pc = "delete"]
                    ELSE NextPartition
    /\ UNCHANGED <<raw, onDisk, opts, cur, artifact, totals>>
    /\ AggFrame

\* aggregate_all: save_segment_stats(...), whose result is not looked at
RunSaveSegmentStats ==
    /\ run.pc = "stats"
    /\ \E how \in {"write_failed", "ok"}
                  \cup (IF opts.s3_bucket THEN {"upload_failed"} ELSE {}) :
         statsOut' = [statsOut EXCEPT ![run.p] = how]
    /\ run' = [run EXCEPT !.pc = "delete"]
    /\ UNCHANGED <<raw, onDisk, opts, cur, artifact, totals>>
    /\ AggFrame

\* aggregate_all: "if delete_raw_files and raw_files:" and the unlink loop;
\* the files in stuck are those whose unlink raises (logged, loop goes on)
RunDeleteRaw ==
    /\ run.pc = "delete"
    /\ IF opts.delete_raw_files /\ cur.raw_files # <<>>
       THEN \E stuck \in SUBSET Range(cur.raw_files) :
               onDisk' = [onDisk EXCEPT ![run.p] = @ \ (Range(cur.raw_files) \ stuck)]
       ELSE onDisk' = onDisk
    /\ run' = NextPartition
    /\ UNCHANGED <<raw, opts, cur, artifact, statsOut, totals>>
    /\ AggFrame

\* no aggregator run is modelled
AggIdle ==
    /\ raw = [p \in DOMAIN Partitions |-> <<>>]
    /\ onDisk = [p \in DOMAIN Partitions |-> {}]
    /\ opts = [s3_bucket |-> FALSE, delete_after_upload |-> FALSE,
               delete_raw_files |-> FALSE, gtfs |-> FALSE]
    /\ run = [pc |-> "day", p |-> Len(Partitions) + 1]
    /\ cur = [aggregated |-> NoCollection, raw_files |-> <<>>, segment_stats |-> NoValue]
    /\ artifact = [p \in DOMAIN Partitions |-> NoArtifact]
    /\ statsOut = [p \in DOMAIN Partitions |-> "none"]
    /\ totals = [aggregated |-> 0, failed |-> 0]

\* aggregate_all is called on some raw store with some options
AggStart ==
    /\ raw \in RawStores
    /\ onDisk = [p \in DOMAIN Partitions |-> DOMAIN raw[p]]
    /\ opts \in [s3_bucket : BOOLEAN, delete_after_upload : BOOLEAN,
                  delete_raw_files : BOOLEAN, gtfs : BOOLEAN]
    /\ run = [pc |-> "day", p |-> 1]
    /\ cur = [aggregated |-> NoCollection, raw_files |-> <<>>, segment_stats |-> NoValue]
    /\ artifact = [p \in DOMAIN Partitions |-> NoArtifact]
    /\ statsOut = [p \in DOMAIN Partitions |-> "none"]
    /\ totals = [aggregated |-> 0, failed |-> 0]

(***************************************************************************)
(* SegmentMatcher.py and GTFSStaticManager.find_segment.                   *)
(***************************************************************************)
\* at most MaxStops observations in a feature handed to match_trajectory
MaxStops == 3
\* at most MaxCalls calls of match_trajectory on one SegmentMatcher
MaxCalls == 1

\* None where the code expects an integer
Null == NoId

\* the segment_id of an observation that is on no segment (None)
NoSegment == <<>>

\* build_segment_index: "{route_id}_{direction_id}_{from_seq}-{to_seq}"
SegmentId(route, dir, from, to) == <<route, dir, from, to>>

\* a segment of the static index
Segment(route, dir, from, to) ==
    [segment_id |-> SegmentId(route, dir, from, to),
     from_stop_sequence |-> from, to_stop_sequence |-> to]

\* the keys of segment_index
IndexKeys == {"R1"} \X {0, 1}

\* the static indexes a SegmentMatcher may be given: per (route, direction)
\* either no segment or the segment between stop sequences 2 and 3
SegmentIndexes ==
    {[k \in IndexKeys |-> IF k \in on THEN <<Segment(k[1], k[2], 2, 3)>> ELSE <<>>] :
        on \in SUBSET IndexKeys}

\* get_segments_for_route
GetSegmentsForRoute(idx, route, dir) ==
    IF <<route, dir>> \in DOMAIN idx THEN idx[<<route, dir>>] ELSE <<>>

\* find_segment: the first segment of the route and direction with the two
\* stop sequences, <<>> for None
FindSegment(idx, route, dir, from, to) ==
    LET segments == GetSegmentsForRoute(idx, route, dir)
        hits == {i \in DOMAIN segments :
                    /\ segments[i].from_stop_sequence = from
                    /\ segments[i].to_stop_sequence = to}
    IN IF hits = {} THEN <<>>
       ELSE <<segments[CHOOSE i \in hits : \A j \in hits : i <= j]>>

\* no segment_id measure is attached to the feature
NoMeasure == [attached |-> FALSE, values |-> <<>>]

\* stop-sequence values of an observation: None, 0, or approaching stop 1 or 3
StopValues == {Null, 0, 1, 3}

\* a stop-sequence value that is not a number (a JSON string), on which
\* "stop_seq > 0" raises TypeError
NotANumber == -2

\* a feature as match_trajectory reads it: route_id and direction_id of its
\* properties (NoValue / Null when missing), whether it has a non-empty
\* temporalProperties list, and the values of current_stop_sequence
MatchFeature(route, dir, temporal, stops) ==
    [route_id |-> route, direction_id |-> dir, has_temporal |-> temporal,
     current_stop_sequence |-> stops, segment_id |-> NoMeasure]

\* the features handed to match_trajectory
MatchFeatures ==
    {MatchFeature("R1", d, TRUE, st) :
        d \in {0, 1}, st \in UNION {[1..n -> StopValues] : n \in 0..MaxStops}}
    \cup {MatchFeature(NoValue, 0, TRUE, <<3>>),
          MatchFeature("R1", Null, TRUE, <<3>>),
          MatchFeature("R1", 0, FALSE, <<>>)}
    \cup {MatchFeature("R1", d, TRUE, st) :
            d \in {0, 1}, st \in {<<NotANumber>>, <<0, NotANumber>>,
                                  <<3, NotANumber, 3>>}}

\* match_trajectory: the segment_id of one observation
SegmentOf(idx, route, dir, stop_seq) ==
    IF stop_seq # Null /\ stop_seq > 0
    THEN LET segment == FindSegment(idx, route, dir, stop_seq - 1, stop_seq)
         IN IF segment # <<>> THEN segment[1].segment_id ELSE NoSegment
    ELSE NoSegment

\* faulty variant: the vehicle is taken to be on the segment that starts at
\* the stop it approaches
SegmentIds_NextSegment(idx, f) ==
    [i \in DOMAIN f.current_stop_sequence |->
        LET stop_seq == f.current_stop_sequence[i]
        IN IF stop_seq # Null /\ stop_seq > 0
           THEN LET segment == FindSegment(idx, f.route_id, f.direction_id,
                                           stop_seq, stop_seq + 1)
                IN IF segment # <<>> THEN segment[1].segment_id ELSE NoSegment
           ELSE NoSegment]

\* match_trajectory: the loop over stop_sequences
SegmentIds(idx, f) ==
    [i \in DOMAIN f.current_stop_sequence |->
        SegmentOf(idx, f.route_id, f.direction_id, f.current_stop_sequence[i])]

\* match_trajectory returns False before it touches the feature
MatchRejects(f) ==
    \/ f.route_id = NoValue
    \/ f.direction_id = Null
    \/ ~f.has_temporal
    \/ f.current_stop_sequence = <<>>

\* match_trajectory: the position of current_stop_sequence at which the loop
\* raises, 0 when it runs to its end
RaisesAt(f) ==
    LET bad == {i \in DOMAIN f.current_stop_sequence :
                   f.current_stop_sequence[i] = NotANumber}
    IN IF bad = {} THEN 0 ELSE CHOOSE i \in bad : \A j \in bad : i <= j

\* match_trajectory: the feature cut down to the observations the loop went
\* through before it ended
Processed(f) ==
    IF RaisesAt(f) = 0 THEN f
    ELSE [f EXCEPT !.current_stop_sequence = SubSeq(@, 1, RaisesAt(f) - 1)]

\* match_trajectory returns False: an early return, or "except Exception"
MatchFails(f) == MatchRejects(f) \/ RaisesAt(f) # 0

SegFrame == UNCHANGED <<feedVars, entVars, mainVars, aggVars, dayVars, s3Vars, batchVars>>

\* match_trajectory on feature f: the feature as the call leaves it, what
\* it returns, and what it adds to matched_count and null_count
MatchCall(idx, f) ==
    IF MatchRejects(f)
    THEN [feature |-> f, returns |-> "False", matched |-> 0, null |-> 0]
    ELSE LET ids == SegmentIds(idx, Processed(f))
             matched == Cardinality({i \in DOMAIN ids : ids[i] # NoSegment})
         IN IF RaisesAt(f) # 0
            THEN [feature |-> f, returns |-> "False",
                  matched |-> matched, null |-> Len(ids) - matched]
            ELSE [feature |-> [f EXCEPT !.segment_id =
                                 [attached |-> TRUE, values |-> ids]],
                  returns |-> "True",
                  matched |-> matched, null |-> Len(ids) - matched]

\* one call of match_trajectory
MatchTrajectory ==
    /\ calls < MaxCalls
    /\ \E call \in {MatchCall(segment_index, f) : f \in MatchFeatures} :
         /\ feature' = call.feature
         /\ matchReturn' = call.returns
         /\ counts' = [matched |-> counts.matched + call.matched,
                       null |-> counts.null + call.null]
         /\ accepted' =
              IF call.returns = "True"
              THEN [observations |->
                      accepted.observations + Len(call.feature.segment_id.values),
                    assigned |->
                      accepted.assigned
                        + Cardinality({i \in DOMAIN call.feature.segment_id.values :
                                         call.feature.segment_id.values[i] # NoSegment})]
              ELSE accepted
    /\ calls' = calls + 1
    /\ segment_index' = segment_index
    /\ UNCHANGED <<pcts, occupancy_stats>>
    /\ SegFrame

(***************************************************************************)
(* compute_segment_statistics: the occupancy statistics of one segment.    *)
(* Occupancy values are held in hundredths: 40 is 0.4, 100 is 1.0 and      *)
(* 4000 is 40.0.                                                           *)
(***************************************************************************)
\* at most MaxRun observations of a segment carry the same occupancy value
MaxRun == 11

RECURSIVE Repeat(_, _)
\* n observations with the occupancy value v
Repeat(v, n) == IF n = 0 THEN <<>> ELSE <<v>> \o Repeat(v, n - 1)

RECURSIVE Reverse(_)
Reverse(s) == IF s = <<>> THEN <<>> ELSE Reverse(Tail(s)) \o <<Head(s)>>

\* the occupancy values of the observations of a segment: runs of 0.2, of
\* 40.0 (a percentage), of 0.4, and at most one 1.0 and one None, in this
\* order or in the reverse order
OccupancyLists ==
    LET lists == {Repeat(20, a) \o Repeat(4000, c) \o Repeat(40, b)
                    \o Repeat(100, e) \o Repeat(Null, d) :
                  a \in 0..MaxRun, b \in 0..MaxRun,
                  c \in 0..1, e \in 0..1, d \in 0..1}
    IN lists \cup {Reverse(l) : l \in lists}

\* "[obs[...] for obs in observations if obs[...] is not None]"
FilterNone(s) == SelectSeq(s, LAMBDA v : v # Null)

\* faulty variant: 1.0 is taken for a percentage too
Normalize_FromOne(s) ==
    [i \in DOMAIN s |-> IF s[i] >= 100 THEN s[i] \div 100 ELSE s[i]]

\* "pct / 100.0 if pct > 1 else pct", on hundredths
Normalize(s) == [i \in DOMAIN s |-> IF s[i] > 100 THEN s[i] \div 100 ELSE s[i]]

RECURSIVE Insert(_, _)
Insert(v, s) ==
    IF s = <<>> THEN <<v>>
    ELSE IF v <= Head(s) THEN <<v>> \o s
    ELSE <<Head(s)>> \o Insert(v, Tail(s))

RECURSIVE Sorted(_)
\* sorted(values)
Sorted(s) == IF s = <<>> THEN <<>> ELSE Insert(Head(s), Sorted(Tail(s)))

\* min(values) and max(values) of a non-empty list
Min(s) == CHOOSE v \in Range(s) : \A w \in Range(s) : v <= w
Max(s) == CHOOSE v \in Range(s) : \A w \in Range(s) : v >= w

\* _compute_mode: Counter, the highest count, the smallest value that has it
ComputeMode(values) ==
    IF values = <<>> THEN 0
    ELSE LET count(v) == Cardinality({i \in DOMAIN values : values[i] = v})
             max_count == CHOOSE c \in {count(v) : v \in Range(values)} :
                             \A v \in Range(values) : c >= count(v)
             modes == {v \in Range(values) : count(v) = max_count}
         IN CHOOSE v \in modes : \A w \in modes : v <= w

\* faulty variant: the lower of the two middle values of an even-sized list
Median_Lower(values) == Sorted(values)[((Len(values) - 1) \div 2) + 1]

\* "sorted(normalized_pcts)[len(normalized_pcts) // 2]"
Median(values) == Sorted(values)[(Len(values) \div 2) + 1]

\* "sorted(...)[int(len(...) * 0.95)] if len(...) > 20 else max(...)";
\* int(n * 0.95) is floor(95 n / 100) for every n up to 200000
P95(values) ==
    IF Len(values) > 20
    THEN Sorted(values)[((Len(values) * 95) \div 100) + 1]
    ELSE Max(values)

\* occupancy_stats of a segment without occupancy values: {}
NoStats == [computed |-> FALSE, mode |-> 0, median |-> 0, min |-> 0,
            max |-> 0, p95 |-> 0]

\* compute_segment_statistics: occupancy_stats of one segment
OccupancyStats(observed) ==
    LET occupancy_pcts == FilterNone(observed)
        normalized_pcts == Normalize(occupancy_pcts)
    IN IF occupancy_pcts = <<>> THEN NoStats
       ELSE [computed |-> TRUE,
             mode |-> ComputeMode(normalized_pcts),
             median |-> Median(normalized_pcts),
             min |-> Min(normalized_pcts),
             max |-> Max(normalized_pcts),
             p95 |-> P95(normalized_pcts)]

\* the observations of a segment have been grouped
GroupObservations ==
    /\ pcts = <<>>
    /\ occupancy_stats = NoStats
    /\ pcts' \in OccupancyLists \ {<<>>}
    /\ UNCHANGED <<segment_index, feature, matchReturn, counts, calls,
                   accepted, occupancy_stats>>
    /\ SegFrame

\* the statistics of the segment are computed
ComputeOccupancyStats ==
    /\ pcts # <<>>
    /\ occupancy_stats = NoStats
    /\ occupancy_stats' = OccupancyStats(pcts)
    /\ occupancy_stats' # NoStats
    /\ UNCHANGED <<segment_index, feature, matchReturn, counts, calls,
                   accepted, pcts>>
    /\ SegFrame

(***************************************************************************)
(* aggregate_day: every feature of the route/day partition is matched and  *)
(* compute_segment_statistics is called on all of them.                    *)
(***************************************************************************)
\* at most MaxBatch features in a route/day partition
MaxBatch == 2

\* the trip ids of the features of a partition
Trips == {"T1", "T2"}

\* one observation of a trajectory file: the stop sequence, the occupancy
\* percentage (in hundredths; None when the file has none), the occupancy
\* status code (None when the file has none) and the hour of its timestamp
Observation(stop, pct, status, hour) ==
    [stop |-> stop, pct |-> pct, status |-> status, hour |-> hour]

\* the observation lists of the features: one observation at a stop that
\* may start a segment, with or without percentage and status, or two
\* observations in different hours, one of them with an unknown status code
ObservationLists ==
    {<<Observation(st, p, c, 8)>> :
        st \in {0, 3}, p \in {Null, 40}, c \in {Null, 1}}
    \cup {<<Observation(3, 4000, 2, 9)>>, <<Observation(3, Null, 2, 9)>>,
          <<Observation(1, 40, 1, 8), Observation(3, 20, 9, 9)>>}

\* a trajectory feature of a file: what match_trajectory reads and the
\* properties and measures compute_segment_statistics reads
BatchFeature(trip, dir, obs) ==
    MatchFeature("R1", dir, TRUE, [i \in DOMAIN obs |-> obs[i].stop])
    @@ [trip_id |-> trip,
        occupancy_percentage |-> [i \in DOMAIN obs |-> obs[i].pct],
        occupancy_status |-> [i \in DOMAIN obs |-> obs[i].status],
        hours |-> [i \in DOMAIN obs |-> obs[i].hour]]

\* the features of a partition: the trips of a route in either direction
BatchFeatures ==
    {BatchFeature(t, d, obs) :
        t \in Trips, d \in {0, 1}, obs \in ObservationLists}
    \cup {BatchFeature("T1", Null, <<Observation(3, 40, 1, 8)>>)}

\* the feature as match_trajectory leaves it
MatchedFeature(idx, f) ==
    IF MatchFails(f) THEN f
    ELSE [f EXCEPT !.segment_id =
            [attached |-> TRUE, values |-> SegmentIds(idx, f)]]

\* the segment ids of the observations of a feature that are on a segment
\* ("if segment_id is None: continue")
ObservedSegments(f) ==
    {f.segment_id.values[i] : i \in DOMAIN f.segment_id.values} \ {NoSegment}

\* the keys of segment_data: the segment ids observed in the features that
\* have temporalProperties
SegmentData(features) ==
    UNION {ObservedSegments(features[k]) :
             k \in {j \in DOMAIN features : features[j].has_temporal}}

\* the order of segment ids as strings "{route}_{direction}_{from}-{to}"
\* (the numbers of the model have one digit)
IdBefore(a, b) ==
    \/ a[1] # b[1] /\ a[1] = "R1"
    \/ a[1] = b[1] /\ a[2] < b[2]
    \/ a[1] = b[1] /\ a[2] = b[2] /\ a[3] < b[3]
    \/ a[1] = b[1] /\ a[2] = b[2] /\ a[3] = b[3] /\ a[4] < b[4]

RECURSIVE SortedIds(_)
\* segments_stats.sort(key=lambda s: s["segment_id"])
SortedIds(S) ==
    IF S = {} THEN <<>>
    ELSE LET m == CHOOSE x \in S : \A y \in S \ {x} : IdBefore(x, y)
         IN <<m>> \o SortedIds(S \ {m})

\* faulty variant: an observation of a trip that the segment already holds
\* is not stored again
StoreObservation_OncePerTrip(data, id, obs) ==
    IF \E k \in DOMAIN data[id] : data[id][k].trip_id = obs.trip_id
    THEN data
    ELSE [data EXCEPT ![id] = Append(@, obs)]

\* segment_data[segment_id]["observations"].append({...}); the set
\* segment_data[segment_id]["trips"] is the set of the trip ids stored
StoreObservation(data, id, obs) == [data EXCEPT ![id] = Append(@, obs)]

RECURSIVE StoreFeature(_, _, _)
\* "for i, segment_id in enumerate(segment_ids)" from observation i on
StoreFeature(data, f, i) ==
    IF i > Len(f.segment_id.values) THEN data
    ELSE LET segment_id == f.segment_id.values[i]
         IN IF segment_id = NoSegment THEN StoreFeature(data, f, i + 1)
            ELSE StoreFeature(
                   StoreObservation(data, segment_id,
                      [timestamp |-> f.hours[i],
                       occupancy_percentage |-> f.occupancy_percentage[i],
                       occupancy_status |-> f.occupancy_status[i],
                       trip_id |-> f.trip_id]),
                   f, i + 1)

RECURSIVE StoreFeatures(_, _, _)
\* "for feature in features" from feature k on
StoreFeatures(data, features, k) ==
    IF k > Len(features) THEN data
    ELSE IF ~features[k].has_temporal
    THEN StoreFeatures(data, features, k + 1)
    ELSE StoreFeatures(StoreFeature(data, features[k], 1), features, k + 1)

\* OCCUPANCY_STATUS_NAMES.get(status, f"UNKNOWN_{status}")
StatusName(status) ==
    CASE status = 0 -> <<"EMPTY">>
      [] status = 1 -> <<"MANY_SEATS_AVAILABLE">>
      [] status = 2 -> <<"FEW_SEATS_AVAILABLE">>
      [] status = 3 -> <<"STANDING_ROOM_ONLY">>
      [] status = 4 -> <<"CRUSHED_STANDING_ROOM_ONLY">>
      [] status = 5 -> <<"FULL">>
      [] status = 6 -> <<"NOT_ACCEPTING_PASSENGERS">>
      [] OTHER -> <<"UNKNOWN", status>>

\* the number of statuses of the list with the name
StatusCount(statuses, name) ==
    Cardinality({i \in DOMAIN statuses : StatusName(statuses[i]) = name})

\* status_distribution: the number of statuses per status name
StatusDistribution(statuses) ==
    [name \in {StatusName(c) : c \in Range(statuses)} |->
        StatusCount(statuses, name)]

\* occupancy_stats has no "distribution" key
NoDistribution == [present |-> FALSE, counts |-> <<>>]

\* occupancy_stats["distribution"], set in the branch "if occupancy_pcts:"
Distribution(observations) ==
    LET occupancy_pcts ==
            SelectSeq(observations, LAMBDA o : o.occupancy_percentage # Null)
        occupancy_statuses ==
            FilterNone([i \in DOMAIN observations |->
                          observations[i].occupancy_status])
    IN IF occupancy_pcts = <<>> THEN NoDistribution
       ELSE [present |-> TRUE, counts |-> StatusDistribution(occupancy_statuses)]

\* _compute_temporal_patterns: the statuses put into the bucket of hour h
BucketStatuses(observations, h) ==
    LET in_bucket == SelectSeq(observations,
                        LAMBDA o : o.occupancy_status # Null /\ o.timestamp = h)
    IN [i \in DOMAIN in_bucket |-> in_bucket[i].occupancy_status]

\* status_counts.most_common(1)[0][0]: the status with the highest count,
\* the one met first in the bucket on a tie
MostCommon(statuses) ==
    LET count(c) == Cardinality({i \in DOMAIN statuses : statuses[i] = c})
        first(c) == CHOOSE i \in DOMAIN statuses :
                       statuses[i] = c /\ \A j \in 1..(i - 1) : statuses[j] # c
    IN CHOOSE c \in Range(statuses) :
          \A d \in Range(statuses) \ {c} :
             count(c) > count(d) \/ (count(c) = count(d) /\ first(c) < first(d))

\* _compute_temporal_patterns: one entry per hourly bucket that holds a
\* status
TemporalPatterns(observations) ==
    [h \in {g \in 0..23 : BucketStatuses(observations, g) # <<>>} |->
        LET statuses == BucketStatuses(observations, h)
        IN [mode_status |-> StatusName(MostCommon(statuses)),
            min_status |-> StatusName(Min(statuses)),
            max_status |-> StatusName(Max(statuses)),
            distribution |-> StatusDistribution(statuses),
            observations |-> Len(statuses)]]

\* segment_stats of one segment, built from its observations
SegmentStats(id, observations) ==
    [segment_id |-> id,
     observations |-> Len(observations),
     trips |-> Cardinality({observations[i].trip_id : i \in DOMAIN observations}),
     occupancy_stats |->
        OccupancyStats([i \in DOMAIN observations |->
                          observations[i].occupancy_percentage]),
     distribution |-> Distribution(observations),
     temporal_patterns |-> TemporalPatterns(observations)]

\* compute_segment_statistics has not been called
NoSegmentStats ==
    [route_id |-> NoValue, direction_id |-> Null, segments |-> <<>>,
     computed |-> FALSE]

\* compute_segment_statistics: the record it returns, with route_id and
\* direction_id split off the segment id of segments_stats[0]
ComputeSegmentStatistics(features) ==
    LET segment_data ==
            StoreFeatures([id \in SegmentData(features) |-> <<>>], features, 1)
        ids == SortedIds({id \in DOMAIN segment_data : segment_data[id] # <<>>})
    IN [route_id |-> IF ids # <<>> THEN ids[1][1] ELSE NoValue,
        direction_id |-> IF ids # <<>> THEN ids[1][2] ELSE Null,
        segments |-> [k \in DOMAIN ids |->
                        SegmentStats(ids[k], segment_data[ids[k]])],
        computed |-> TRUE]

BatchFrame ==
    UNCHANGED <<feedVars, entVars, mainVars, aggVars, dayVars, s3Vars>>

\* aggregate_day: one feature of a file is matched and collected
CollectFeature ==
    /\ ~segment_stats.computed
    /\ Len(day_features) < MaxBatch
    /\ \E f \in BatchFeatures :
         LET m == MatchedFeature(segment_index, f)
             ids == IF MatchRejects(f) THEN <<>>
                    ELSE SegmentIds(segment_index, Processed(f))
             hit == {i \in DOMAIN ids : ids[i] # NoSegment}
         IN /\ day_features' = Append(day_features, m)
            /\ feature' = m
            /\ matchReturn' = IF MatchFails(f) THEN "False" ELSE "True"
            /\ counts' = [matched |-> counts.matched + Cardinality(hit),
                          null |-> counts.null + Len(ids) - Cardinality(hit)]
            /\ accepted' =
                 IF MatchFails(f) THEN accepted
                 ELSE [observations |-> accepted.observations + Len(ids),
                       assigned |-> accepted.assigned + Cardinality(hit)]
    /\ calls' = calls + 1
    /\ UNCHANGED <<segment_index, pcts, occupancy_stats, segment_stats>>
    /\ BatchFrame

\* aggregate_day: "if not all_features: return"; then
\* segment_matcher.compute_segment_statistics(all_features, ...)
RunComputeSegmentStatistics ==
    /\ ~segment_stats.computed
    /\ day_features # <<>>
    /\ segment_stats' = ComputeSegmentStatistics(day_features)
    /\ UNCHANGED <<segVars, day_features>>
    /\ BatchFrame

\* no aggregate_day with a segment matcher is modelled
BatchIdle ==
    /\ day_features = <<>>
    /\ segment_stats = NoSegmentStats

\* no SegmentMatcher is modelled
SegIdle ==
    /\ segment_index = [k \in IndexKeys |-> <<>>]
    /\ feature = MatchFeature(NoValue, Null, FALSE, <<>>)
    /\ matchReturn = "none"
    /\ counts = [matched |-> 0, null |-> 0]
    /\ accepted = [observations |-> 0, assigned |-> 0]
    /\ calls = MaxCalls
    /\ pcts = <<>>
    /\ occupancy_stats = NoStats

\* SegmentMatcher(gtfs_manager) on some static index
SegStart ==
    /\ segment_index \in SegmentIndexes
    /\ feature = MatchFeature(NoValue, Null, FALSE, <<>>)
    /\ matchReturn = "none"
    /\ counts = [matched |-> 0, null |-> 0]
    /\ accepted = [observations |-> 0, assigned |-> 0]
    /\ calls = 0
    /\ pcts = <<>>
    /\ occupancy_stats = NoStats

(***************************************************************************)
(* Entity.save and aggregation_thread over the days.                       *)
(***************************************************************************)
\* the days the calendar view runs over
MaxDay == 3
\* at most MaxDayFiles files are saved into one day partition
MaxDayFiles == 2

Days == 1..MaxDay

\* the parts of a day: hour 0-1, hour 2 (aggregation_hour), hour 3-23
DayParts == <<"before", "hour2", "after">>

NoEntity == [first_day |-> 0, nobs |-> 0]

EmptyPartition == [raw |-> 0, merged |-> 0, late |-> 0, aggregated |-> FALSE]

DayFrame == UNCHANGED <<feedVars, entVars, mainVars, aggVars, segVars, s3Vars, batchVars>>

\* the wall clock moves on to the next part of the day or to the next day
ClockAdvance ==
    /\ \/ /\ now.part < Len(DayParts)
          /\ now' = [now EXCEPT !.part = @ + 1]
       \/ /\ now.part = Len(DayParts)
          /\ now.day < MaxDay
          /\ now' = [day |-> now.day + 1, part |-> 1]
    /\ UNCHANGED <<tracked, partition, lastAggDay>>
    /\ DayFrame

\* consume_pb creates the entity: updated_at[0] is a timestamp of today
TrackCreate ==
    /\ tracked = NoEntity
    /\ tracked' = [first_day |-> now.day, nobs |-> 1]
    /\ UNCHANGED <<now, partition, lastAggDay>>
    /\ DayFrame

\* consume_pb updates the entity
TrackUpdate ==
    /\ tracked # NoEntity
    /\ tracked.nobs < MaxObs
    /\ tracked' = [tracked EXCEPT !.nobs = @ + 1]
    /\ UNCHANGED <<now, partition, lastAggDay>>
    /\ DayFrame

\* Entity.save: the partition is the date of updated_at[0]
SavePartition(e) == e.first_day

\* consume_pb finalizes the entity (direction change, sweep or ceiling): it
\* is saved if it has more than one observation, and removed
TrackFinalize ==
    /\ tracked # NoEntity
    /\ tracked' = NoEntity
    /\ LET d == SavePartition(tracked)
       IN /\ tracked.nobs > 1 =>
               partition[d].raw + partition[d].merged < MaxDayFiles
          /\ IF tracked.nobs > 1
             THEN partition' = [partition EXCEPT
                                  ![d].raw = @ + 1,
                                  ![d].late = IF partition[d].aggregated
                                              THEN @ + 1 ELSE @]
             ELSE partition' = partition
    /\ UNCHANGED <<now, lastAggDay>>
    /\ DayFrame

\* aggregation_thread: should_run holds and aggregate_all runs for
\* yesterday with delete_raw_files=True; on success the raw files found are
\* merged into the day's artifact and deleted
AggregateYesterday ==
    /\ DayParts[now.part] = "hour2"
    /\ lastAggDay = 0 \/ now.day - lastAggDay >= 1
    /\ lastAggDay' = now.day
    /\ LET y == now.day - 1
       IN IF y \in Days
          THEN \E success \in BOOLEAN :
                 partition' = [partition EXCEPT
                    ![y] = IF success /\ partition[y].raw > 0
                           THEN [raw |-> 0, merged |-> partition[y].raw,
                                 late |-> 0, aggregated |-> TRUE]
                           ELSE [@ EXCEPT !.late = 0, !.aggregated = TRUE]]
          ELSE partition' = partition
    /\ UNCHANGED <<now, tracked>>
    /\ DayFrame

\* the calendar view is not modelled
DayIdle ==
    /\ now = [day |-> MaxDay, part |-> Len(DayParts)]
    /\ tracked = NoEntity
    /\ partition = [d \in Days |-> EmptyPartition]
    /\ lastAggDay = MaxDay

\* the service starts on the first day
DayStart ==
    /\ now = [day |-> 1, part |-> 1]
    /\ tracked = NoEntity
    /\ partition = [d \in Days |-> EmptyPartition]
    /\ lastAggDay = 0

(***************************************************************************)
(* upload_file (s3Uploader.py).                                            *)
(***************************************************************************)
MaxUploads == 2

ObjectNames == {"raw/a.mfjson", "raw/b.mfjson"}

\* the data argument: two JSON texts and a str holding a lone surrogate,
\* which str.encode("utf-8") rejects
Datas == {"{}", "{\"type\"}", "surrogate"}

NoBody == <<>>

\* data.encode("utf-8")
Encode(data) == <<"utf-8", data>>

Encodable(data) == data # "surrogate"

\* an exception object: its class and, for a ClientError, the value of
\* response["Error"]["Code"] ("absent" when the response carries none)
Exc(class, code) == [class |-> class, code |-> code]

NoExc == Exc("none", "")

ClientErrorCodes ==
    {"NoSuchBucket", "AccessDenied", "InvalidBucketName", "SlowDown", "absent"}

\* the classes caught by "except Exception" only
OtherExceptions ==
    {"RuntimeError", "ConnectionError", "TimeoutError", "UnicodeEncodeError"}

\* every exception class is an Exception subclass
ExceptionClasses ==
    {"NoCredentialsError", "PartialCredentialsError", "ClientError"}
    \cup OtherExceptions

\* what boto3.client("s3") can do: return a client or raise
ClientOutcomes ==
    {NoExc, Exc("NoCredentialsError", ""), Exc("PartialCredentialsError", ""),
     Exc("RuntimeError", ""), Exc("ConnectionError", "")}
    \cup {Exc("ClientError", c) : c \in {"AccessDenied"}}

\* what s3_client.put_object can do: complete, or raise with the object
\* stored or not (a response lost after the write)
PutOutcomes ==
    {[exc |-> NoExc, stored |-> TRUE]}
    \cup {[exc |-> Exc("ClientError", c), stored |-> FALSE] :
             c \in ClientErrorCodes}
    \cup {[exc |-> Exc(c, ""), stored |-> FALSE] :
             c \in {"NoCredentialsError", "PartialCredentialsError"}}
    \cup {[exc |-> Exc(c, ""), stored |-> b] :
             c \in {"ConnectionError", "TimeoutError"}, b \in BOOLEAN}

\* e.response.get("Error", {}).get("Code", "Unknown")
ErrorCode(e) == IF e.code = "absent" THEN "Unknown" ELSE e.code

\* how an upload_file call ended: the value it returned ("raised" when an
\* exception left the function), the message it logged, and how far the
\* try block got
CallEnd(returned, logged, created, completed, objs) ==
    [returned |-> returned, logged |-> logged, client_created |-> created,
     put_completed |-> completed, objects |-> objs]

\* faulty variant: the except clauses without the final "except Exception"
Handlers_NoCatchAll(e, created, objs) ==
    CASE e.class = "NoCredentialsError" ->
           CallEnd("False", "credentials not found", created, FALSE, objs)
      [] e.class = "PartialCredentialsError" ->
           CallEnd("False", "incomplete credentials", created, FALSE, objs)
      [] e.class = "ClientError" ->
           CallEnd("False",
                   CASE ErrorCode(e) = "NoSuchBucket" -> "bucket does not exist"
                     [] ErrorCode(e) = "AccessDenied" -> "access denied"
                     [] OTHER -> "upload failed",
                   created, FALSE, objs)
      [] OTHER -> CallEnd("raised", "", created, FALSE, objs)

\* the except clauses of upload_file, tried in order on the exception e
Handlers(e, created, objs) ==
    CASE e.class = "NoCredentialsError" ->
           CallEnd("False", "credentials not found", created, FALSE, objs)
      [] e.class = "PartialCredentialsError" ->
           CallEnd("False", "incomplete credentials", created, FALSE, objs)
      [] e.class = "ClientError" ->
           CallEnd("False",
                   CASE ErrorCode(e) = "NoSuchBucket" -> "bucket does not exist"
                     [] ErrorCode(e) = "AccessDenied" -> "access denied"
                     [] OTHER -> "upload failed",
                   created, FALSE, objs)
      [] e.class \in ExceptionClasses ->
           CallEnd("False", "unexpected error", created, FALSE, objs)
      [] OTHER -> CallEnd("raised", "", created, FALSE, objs)

\* upload_file(data, bucket, object_name) against the bucket contents objs,
\* with boto3.client ending as client and put_object as put
UploadFileCall(objs, data, object_name, client, put) ==
    IF client # NoExc THEN Handlers(client, FALSE, objs)
    ELSE IF ~Encodable(data)
    THEN Handlers(Exc("UnicodeEncodeError", ""), TRUE, objs)
    ELSE LET after == IF put.stored
                      THEN [objs EXCEPT ![object_name] = Encode(data)]
                      ELSE objs
         IN IF put.exc # NoExc THEN Handlers(put.exc, TRUE, after)
            ELSE CallEnd("True", "uploaded", TRUE, TRUE, after)

NoUpload ==
    [data |-> "", object_name |-> "", client |-> NoExc,
     put |-> [exc |-> NoExc, stored |-> FALSE],
     end |-> CallEnd("none", "", FALSE, FALSE, [n \in ObjectNames |-> NoBody])]

S3Frame == UNCHANGED <<feedVars, entVars, mainVars, aggVars, segVars, dayVars, batchVars>>

\* one call of upload_file
UploadFile ==
    /\ uploads < MaxUploads
    /\ \E data \in Datas, name \in ObjectNames,
          client \in ClientOutcomes, put \in PutOutcomes :
         LET end == UploadFileCall(objects, data, name, client, put)
         IN /\ upload' = [data |-> data, object_name |-> name,
                          client |-> client, put |-> put, end |-> end]
            /\ objects' = end.objects
    /\ uploads' = uploads + 1
    /\ S3Frame

S3Idle ==
    /\ objects = [n \in ObjectNames |-> NoBody]
    /\ upload = NoUpload
    /\ uploads = 0

Init == FeedInit /\ EntityIdle /\ MainIdle /\ AggIdle /\ SegIdle /\ DayIdle /\ S3Idle /\ BatchIdle

InitAgg == FeedInit /\ EntityIdle /\ MainIdle /\ AggStart /\ SegIdle /\ DayIdle /\ S3Idle /\ BatchIdle

InitMatch == FeedInit /\ EntityIdle /\ MainIdle /\ AggIdle /\ SegStart /\ DayIdle /\ S3Idle /\ BatchIdle

InitDays == FeedInit /\ EntityIdle /\ MainIdle /\ AggIdle /\ SegIdle /\ DayStart /\ S3Idle /\ BatchIdle

\* upload_file called again and again on one bucket
NextUpload == UploadFile

SpecUpload == Init /\ [][NextUpload]_vars

\* the poll loop of one feed: VehiclePositionFeed.consume_pb, cycle after cycle
Next == PollFatal \/ PollSkipped \/ PollProcessed

Spec == Init /\ [][Next]_vars

\* snapshots of a feed that reports at most one vehicle at a time
SmallSnapshots == {v \in Snapshots : Len(v) <= 1}

\* the steps of collection_thread
CollectionStep ==
    \/ CycleBegin
    \/ CycleFatal
    \/ CycleSkipped
    \/ CycleProcessedOn(SmallSnapshots)
    \/ CycleRaised
    \/ CollectionWake
    \/ CollectionExit

\* the steps of aggregation_thread
AggregationStep ==
    \/ AggregationBegin
    \/ AggregationPass
    \/ AggregationWake
    \/ AggregationExit

\* the process: both threads and the signal handler
NextMain ==
    \/ CollectionStep
    \/ AggregationStep
    \/ SignalHandler

SpecMain == Init /\ [][NextMain]_vars

\* the process with both threads scheduled: a thread that can take a step
\* eventually takes one (a fetch in flight returns, a wait ends)
SpecMainFair ==
    /\ SpecMain
    /\ WF_vars(CollectionStep)
    /\ WF_vars(AggregationStep)

\* the scenario of a ceiling of 2 and three vehicles: the k-th cycle finds
\* k - 1 entities and reports k ids, the k - 1 it has (each in the direction
\* it has) and one more
ScenarioSnapshots(k) ==
    {v \in Snapshots :
        /\ Len(v) = k
        /\ \A i \in DOMAIN entities :
             \E j \in 1..k :
                /\ v[j].id = entities[i].entity_id
                /\ v[j].direction_id = entities[i].direction_id}

FirstSighting == clock = 0 /\ PollProcessedOn(ScenarioSnapshots(1))

SecondSighting == clock = 1 /\ PollProcessedOn(ScenarioSnapshots(2))

ThirdSighting == clock = 2 /\ PollProcessedOn(ScenarioSnapshots(3))

NextCeiling == FirstSighting \/ SecondSighting \/ ThirdSighting

SpecCeiling == Init /\ [][NextCeiling]_vars

\* one SegmentMatcher and the calls made on it
NextMatch == MatchTrajectory

\* the poll loop and the daily aggregation over the days
NextDays ==
    \/ ClockAdvance
    \/ TrackCreate
    \/ TrackUpdate
    \/ TrackFinalize
    \/ AggregateYesterday

SpecDays == InitDays /\ [][NextDays]_vars

\* the occupancy statistics of one segment
NextStats == GroupObservations \/ ComputeOccupancyStats

SpecStats == Init /\ [][NextStats]_vars

SpecMatch == InitMatch /\ [][NextMatch]_vars

\* aggregate_day over the features of one route/day partition
NextBatch == CollectFeature \/ RunComputeSegmentStatistics

SpecBatch == InitMatch /\ [][NextBatch]_vars

\* one run of aggregate_all
NextAgg ==
    \/ RunAggregateDay
    \/ RunSaveAggregated
    \/ RunSaveSegmentStats
    \/ RunDeleteRaw

SpecAgg == InitAgg /\ [][NextAgg]_vars

\* scripts/aggregate_trajectories.py: aggregate_all is run on its own, no
\* thread of main.py is alive
InitScript ==
    /\ entities = <<>>
    /\ timeout = DEFAULT_TIMEOUT
    /\ clock = 0
    /\ fetched = [kind |-> "none", vehicles |-> <<>>]
    /\ outcomes = <<>>
    /\ removed = {}
    /\ saved = <<>>
    /\ colPc = "exited"
    /\ shutdown = TRUE
    /\ aggPc = "exited"
    /\ last_aggregation = FALSE
    /\ EntityIdle /\ AggStart /\ SegIdle /\ DayIdle /\ S3Idle /\ BatchIdle

\* the two ways the program is run: the process of main.py, or one
\* aggregator run of the script
NextProgram == NextMain \/ NextAgg

SpecProgram == (Init \/ InitScript) /\ [][NextProgram]_vars

\* one Entity object, constructed and then updated directly
NextEntity == EntityCreate \/ EntityAppend \/ EntitySerialize \/ EntitySave

SpecEntity == Init /\ [][NextEntity]_vars

\* C1: after creation and after any number of updates, all eleven top-level
\* temporal sequences of an entity have the same length, 1 plus the number
\* of appends made.
C1_TemporalSequencesInLockstep ==
    ent # None => TemporalLengths(ent) = {appends + 1}

\* an entity that has been updated at least once
C1_Witness ==
    /\ ent # None
    /\ appends >= 1
    /\ Len(ent.coordinates) = appends + 1

(***************************************************************************)
(* Properties of the reconciler, checked under Spec.                       *)
(***************************************************************************)
RegistryIds(ents) == {ents[i].entity_id : i \in DOMAIN ents}

WithId(ents, id) == {i \in DOMAIN ents : ents[i].entity_id = id}

\* number of Entity.save calls the latest cycle made on the entity uid
SaveCalls(uid) == Cardinality({k \in DOMAIN saved : saved[k].uid = uid})

\* the latest step was a cycle that processed a non-empty snapshot
ProcessedStep == fetched'.kind = "ok" /\ Len(fetched'.vehicles) > 0

\* the latest step recorded a fetch without vehicles that was not fatal
SkippedFetch ==
    fetched'.kind \in RecoverableKinds \cup {"ok"} /\ Len(fetched'.vehicles) = 0

\* the latest cycle was skipped (recoverable failure or zero records)
SkippedLast == fetched.kind \in RecoverableKinds \cup {"ok"} /\ Len(fetched.vehicles) = 0

\* C2: in every poll cycle, each entity that leaves the registry (ceiling,
\* direction change or sweep) with exactly 1 observation is not handed to
\* Entity.save, each one that leaves with 2 or more is handed to it exactly
\* once, nothing else is saved, and an entity that left is not in the
\* registry any more (so it cannot be saved again later).
C2_PersistIffTwoObservations ==
    /\ \A x \in removed :
         /\ SaveCalls(x.uid) = (IF x.nobs >= 2 THEN 1 ELSE 0)
         /\ \A y \in removed : y.uid = x.uid => y = x
         /\ \A i \in DOMAIN entities : entities[i].created # x.uid
    /\ \A k \in DOMAIN saved : \E x \in removed : x.uid = saved[k].uid

\* the ceiling evicted an entity with 2 or more observations (saved) and
\* another entity left in the same cycle with a single observation (not saved)
C2_Witness ==
    /\ \E x \in removed : x.nobs >= 2 /\ x.why = "ceiling"
    /\ \E x \in removed : x.nobs = 1

C4_UnseenIdCreatesOne ==
    [][ProcessedStep =>
         \A k \in DOMAIN fetched'.vehicles :
            LET r == fetched'.vehicles[k]
            IN r.id \notin RegistryIds(entities) =>
                 /\ Cardinality(WithId(entities', r.id)) = 1
                 /\ \A i \in WithId(entities', r.id) :
                      /\ entities'[i].updated_at = <<TimestampToIso(r.timestamp)>>
                      /\ TemporalLengths(entities'[i]) = {1}
                      /\ entities'[i].direction_id = r.direction_id
                      /\ entities'[i].created > clock]_vars

\* a reconcile cycle (registry non-empty) met a record with an unseen id
C4_Witness ==
    /\ \E k \in DOMAIN outcomes : outcomes[k] = "created"
    /\ \E k \in DOMAIN outcomes : outcomes[k] \in {"updated", "duplicate"}

\* the registry entity a record is matched with: the first one with the
\* record's id that the ceiling check of the cycle leaves in the registry
Matched(r) ==
    LET kept == CheckMemoryLimit(CycleStart).entities
        i == FindEntity(kept, r.id)
    IN IF i = 0 THEN {} ELSE {kept[i]}

\* C5: a record that matches a registry entity with a different last
\* timestamp and a different direction finalizes the old entity exactly once
\* (saved iff it had 2 or more observations), removes it, and leaves exactly
\* one entity with the id, created in this cycle and holding only the
\* record's observation.
C5_DirectionChangeReplaces ==
    [][ProcessedStep =>
         \A k \in DOMAIN fetched'.vehicles :
            LET r == fetched'.vehicles[k]
            IN \A e \in Matched(r) :
                 (/\ e.updated_at[Len(e.updated_at)] # TimestampToIso(r.timestamp)
                  /\ e.direction_id # r.direction_id)
                 =>
                 /\ [uid |-> e.created, entity_id |-> e.entity_id,
                     nobs |-> NumObs(e), why |-> "direction"] \in removed'
                 /\ Cardinality({x \in removed' : x.uid = e.created}) = 1
                 /\ Cardinality({j \in DOMAIN saved' : saved'[j].uid = e.created})
                      = (IF NumObs(e) >= 2 THEN 1 ELSE 0)
                 /\ Cardinality(WithId(entities', r.id)) = 1
                 /\ \A i \in WithId(entities', r.id) :
                      /\ entities'[i].created > clock
                      /\ entities'[i].direction_id = r.direction_id
                      /\ entities'[i].updated_at = <<TimestampToIso(r.timestamp)>>
                      /\ TemporalLengths(entities'[i]) = {1}]_vars

\* a direction change replaced an entity that had 2 observations
C5_Witness ==
    /\ \E x \in removed : x.why = "direction" /\ x.nobs >= 2
    /\ \E k \in DOMAIN outcomes : outcomes[k] = "direction_changed"

\* C6 as stated: with a ceiling of 2 and three vehicles first reported in
\* three successive cycles and all still reported, once the third entity has
\* been created the registry holds exactly 2 entities, the oldest-created
\* one having been evicted (and saved iff it had 2 or more observations).
C6_CeilingHoldsAfterThirdCreation ==
    clock = 3 =>
        /\ Len(entities) = MAX_ENTITIES
        /\ \A i \in DOMAIN entities : entities[i].created # 1
        /\ \E x \in removed :
             /\ x.uid = 1
             /\ x.why = "ceiling"
             /\ SaveCalls(1) = (IF x.nobs >= 2 THEN 1 ELSE 0)

\* C7 as stated: after a fatal fetch error has ended the poll loop, the
\* process terminates, so the only step left to the aggregation loop is to
\* stop: it neither wakes from its wait nor makes another pass.
C7_FatalFetchStopsAggregation ==
    [][colPc = "killed" => (aggPc' = aggPc \/ aggPc' = "exited")]_vars

\* the part of C7 the code does meet: after the fatal fetch error the poll
\* loop performs no further cycle
C7_FatalFetchStopsPolling ==
    [][colPc = "killed" => UNCHANGED feedVars]_vars

\* the features aggregate_day has just returned for the partition run.p
MergedFeatures == cur.aggregated.features

\* aggregate_day has just returned a merged collection
DayReturned == run.pc = "save"

\* the raw file at position k of partition p passes aggregate_day's checks
ValidFile(p, k) == raw[p][k].type = "FeatureCollection"

\* the merged collection is the features of the valid files, in sorted file
\* order and, within a file, in the file's feature order
MergedInFileOrder ==
    LET p == run.p
    IN /\ \A i \in DOMAIN MergedFeatures :
            LET f == MergedFeatures[i]
            IN /\ f.src \in DOMAIN raw[p]
               /\ ValidFile(p, f.src)
               /\ f.pos \in DOMAIN raw[p][f.src].features
               /\ f.has_properties = raw[p][f.src].features[f.pos].has_properties
       /\ \A k \in DOMAIN raw[p] :
            ValidFile(p, k) =>
              \A j \in DOMAIN raw[p][k].features :
                \E i \in DOMAIN MergedFeatures :
                  MergedFeatures[i].src = k /\ MergedFeatures[i].pos = j
       /\ \A i, j \in DOMAIN MergedFeatures :
            i < j =>
              \/ MergedFeatures[i].src < MergedFeatures[j].src
              \/ /\ MergedFeatures[i].src = MergedFeatures[j].src
                 /\ MergedFeatures[i].pos < MergedFeatures[j].pos

Persisted(p) == IF opts.s3_bucket THEN artifact[p].s3 ELSE artifact[p].local

\* the raw files of partition p that have been deleted
Deleted(p) == DOMAIN raw[p] \ onDisk[p]

\* C9 as stated: a raw file is deleted only if it was a valid file whose
\* features are all in the successfully persisted merged artifact of its
\* partition; a file skipped as invalid is never deleted.
C9_DeletedOnlyIfMerged ==
    \A p \in DOMAIN Partitions :
      \A k \in Deleted(p) :
        /\ ValidFile(p, k)
        /\ artifact[p].result = "ok"
        /\ \A j \in DOMAIN raw[p][k].features :
             \E i \in DOMAIN Persisted(p).features :
               /\ Persisted(p).features[i].src = k
               /\ Persisted(p).features[i].pos = j

\* the part of C9 the code does meet: the features of every deleted valid
\* file are in the successfully persisted merged artifact
C9_DeletedValidFileIsMerged ==
    \A p \in DOMAIN Partitions :
      \A k \in Deleted(p) :
        /\ artifact[p].result = "ok"
        /\ ValidFile(p, k) =>
             \A j \in DOMAIN raw[p][k].features :
               \E i \in DOMAIN Persisted(p).features :
                 /\ Persisted(p).features[i].src = k
                 /\ Persisted(p).features[i].pos = j

\* the partitions save_aggregated was called for and what it returned
SavedWith(result) == {p \in DOMAIN Partitions : artifact[p].result = result}

\* C10: raw files of a partition are deleted only when deletion is asked
\* for and only after save_aggregated has written the merged artifact and,
\* with a bucket, uploaded it; a partition whose write or upload failed
\* keeps all its raw files and is counted as failed.
C10_DeleteOnlyAfterPersisted ==
    /\ [](\A p \in DOMAIN Partitions :
            /\ Deleted(p) # {} =>
                 /\ opts.delete_raw_files
                 /\ artifact[p].written
                 /\ artifact[p].result = "ok"
                 /\ opts.s3_bucket => artifact[p].upload = "ok"
            /\ (artifact[p].result # "none"
                 /\ (~artifact[p].written \/ artifact[p].upload = "failed"))
                 => /\ artifact[p].result = "failed"
                    /\ Deleted(p) = {})
    /\ [](/\ totals.failed = Cardinality(SavedWith("failed"))
          /\ totals.aggregated = Cardinality(SavedWith("ok")))
    /\ [][onDisk' # onDisk =>
            /\ artifact[run.p].written
            /\ artifact[run.p].result = "ok"
            /\ opts.s3_bucket => artifact[run.p].upload = "ok"
            /\ \A p \in DOMAIN Partitions : p # run.p => onDisk'[p] = onDisk[p]]_vars

\* with raw-file deletion asked for, the upload of the first partition
\* failed and all its raw files are still there, while the second partition
\* was uploaded and its raw file deleted
C10_Witness ==
    /\ opts.delete_raw_files
    /\ opts.s3_bucket
    /\ artifact[1].written
    /\ artifact[1].upload = "failed"
    /\ raw[1] # <<>>
    /\ Deleted(1) = {}
    /\ artifact[2].upload = "ok"
    /\ artifact[2].result = "ok"
    /\ Deleted(2) = {1}
    /\ totals = [aggregated |-> 1, failed |-> 1]

\* aggregate_all has just finished with partition p (cur is still what
\* aggregate_day returned for it)
JustFinished(p) == run = [pc |-> "day", p |-> p + 1]

\* C11 as stated: whenever segment statistics were computed for a route/day,
\* the statistics artifact is written once aggregate_all is done with that
\* route/day, also when the upload of the merged trajectory artifact failed.
C11_StatsSavedDespiteUploadFailure ==
    \A p \in DOMAIN Partitions :
        (/\ JustFinished(p)
         /\ cur.segment_stats = "stats"
         /\ artifact[p].upload = "failed")
        => statsOut[p] \in {"ok", "upload_failed"}

\* the part of C11 the code does meet: save_segment_stats is called exactly
\* for the route/days with statistics whose save_aggregated returned success
C11_StatsSavedAfterSuccess ==
    \A p \in DOMAIN Partitions :
        (JustFinished(p) /\ artifact[p].result # "none")
        => (statsOut[p] # "none"
              <=> (cur.segment_stats = "stats" /\ artifact[p].result = "ok"))

\* the static index holds a segment of the route and direction between the
\* stop sequences from and to
Indexed(route, dir, from, to) ==
    /\ <<route, dir>> \in DOMAIN segment_index
    /\ \E i \in DOMAIN segment_index[<<route, dir>>] :
         /\ segment_index[<<route, dir>>][i].from_stop_sequence = from
         /\ segment_index[<<route, dir>>][i].to_stop_sequence = to

\* C12: a match_trajectory call that returns True (the feature has a route,
\* a direction and a non-empty current_stop_sequence) leaves a segment_id
\* measure of the length of current_stop_sequence; position i holds the id
\* of segment (route, direction, N-1, N) when the stop sequence N at i is
\* present, greater than zero and that segment is indexed, and null
\* otherwise.  A call that returns False attaches nothing.
C12_SegmentIdsParallelToStops ==
    /\ matchReturn = "True" =>
         /\ feature.segment_id.attached
         /\ Len(feature.segment_id.values) = Len(feature.current_stop_sequence)
         /\ Len(feature.current_stop_sequence) > 0
         /\ \A i \in DOMAIN feature.current_stop_sequence :
              LET N == feature.current_stop_sequence[i]
              IN feature.segment_id.values[i] =
                   (IF /\ N # Null
                       /\ N > 0
                       /\ Indexed(feature.route_id, feature.direction_id, N - 1, N)
                    THEN SegmentId(feature.route_id, feature.direction_id, N - 1, N)
                    ELSE NoSegment)
    /\ matchReturn = "False" => feature.segment_id = NoMeasure

\* the example of C12: stop sequences [0, 3, 3] with segment (route, dir, 2, 3)
\* indexed were given [null, segId, segId]
C12_Witness ==
    /\ matchReturn = "True"
    /\ feature.current_stop_sequence = <<0, 3, 3>>
    /\ Indexed(feature.route_id, feature.direction_id, 2, 3)
    /\ feature.segment_id.values =
         <<NoSegment,
           SegmentId(feature.route_id, feature.direction_id, 2, 3),
           SegmentId(feature.route_id, feature.direction_id, 2, 3)>>

\* the occupancy values the statistics of the segment are taken over: the
\* values that are not None, a value above 1 divided by 100
StatValues == Normalize(FilterNone(pcts))

\* how often the value v occurs among the values
Occurrences(v) == Cardinality({i \in DOMAIN StatValues : StatValues[i] = v})

\* x is the value at (0-based) index k of the sorted values: at most k
\* values are smaller than x and more than k are not greater
AtSortedIndex(x, k) ==
    /\ x \in Range(StatValues)
    /\ Cardinality({i \in DOMAIN StatValues : StatValues[i] < x}) <= k
    /\ Cardinality({i \in DOMAIN StatValues : StatValues[i] <= x}) > k

\* C13: for every non-empty list of occupancy values of a segment, mode is
\* the most frequent value (the smallest one on a tie), median the value at
\* index floor(n/2) of the sorted list, min and max the extremes, and p95
\* the value at index floor(0.95 n) of the sorted list when n > 20 and the
\* max otherwise; [0.2, 0.4, 0.4] gives mode 0.4, median 0.4, min 0.2 and
\* max 0.4.
C13_OccupancyStatistics ==
    occupancy_stats.computed =>
        LET n == Len(StatValues)
            st == occupancy_stats
        IN /\ n > 0
           /\ st.mode \in Range(StatValues)
           /\ \A v \in Range(StatValues) :
                /\ Occurrences(st.mode) >= Occurrences(v)
                /\ Occurrences(v) = Occurrences(st.mode) => st.mode <= v
           /\ AtSortedIndex(st.median, n \div 2)
           /\ AtSortedIndex(st.min, 0)
           /\ AtSortedIndex(st.max, n - 1)
           /\ IF n > 20 THEN AtSortedIndex(st.p95, (95 * n) \div 100)
                        ELSE st.p95 = st.max
           /\ pcts = <<20, 40, 40>> =>
                st = [computed |-> TRUE, mode |-> 40, median |-> 40,
                      min |-> 20, max |-> 40, p95 |-> 40]

\* statistics of more than 20 values, of even number, given as fractions
\* and as percentages, with a median above the min and a p95 below the max
C13_Witness ==
    /\ occupancy_stats.computed
    /\ Len(StatValues) > 20
    /\ Len(StatValues) % 2 = 0
    /\ \E i \in DOMAIN pcts : pcts[i] > 100
    /\ occupancy_stats.min = 20
    /\ occupancy_stats.mode = 40
    /\ occupancy_stats.median = 40
    /\ occupancy_stats.p95 = 40
    /\ occupancy_stats.max = 100

\* C14 as stated: once aggregate_all has run for a day's partition, no poll
\* loop writes a trajectory file into that partition any more, so no raw
\* file is left in it outside the merged artifact.
C14_AggregatedPartitionClosed ==
    \A d \in Days : partition[d].aggregated => partition[d].late = 0

\* the part of C14 the code does meet: the daily run reads the partition of
\* the day before the current one, and no entity first observed on a later
\* day is saved into an earlier partition
C14_AggregatesPriorDay ==
    /\ \A d \in Days : partition[d].aggregated => d < now.day
    /\ \A d \in Days : d > now.day => partition[d] = EmptyPartition

\* both threads have ended
ThreadsEnded == colPc \in {"exited", "killed"} /\ aggPc = "exited"

\* C15: once the shutdown event is set, no loop starts another cycle; a
\* loop inside a cycle finishes it and goes to its wait, a sleeping loop
\* wakes and, at its while test, exits; and with both threads scheduled
\* both eventually end.
C15_ShutdownStopsBothLoops ==
    /\ [][shutdown =>
            /\ colPc' = "cycle" => colPc = "cycle"
            /\ aggPc' = "pass" => aggPc = "pass"
            /\ (colPc = "cycle" /\ colPc' # colPc) => colPc' \in {"wait", "killed"}
            /\ (aggPc = "pass" /\ aggPc' # aggPc) => aggPc' = "wait"
            /\ (colPc = "wait" /\ colPc' # colPc) => colPc' = "loop"
            /\ (aggPc = "wait" /\ aggPc' # aggPc) => aggPc' = "loop"
            /\ (colPc = "loop" /\ colPc' # colPc) => colPc' = "exited"
            /\ (aggPc = "loop" /\ aggPc' # aggPc) => aggPc' = "exited"]_vars
    /\ [](shutdown => <>ThreadsEnded)

\* shutdown was signalled after cycles and an aggregation had run, and both
\* loops have left through their while test
C15_Witness ==
    /\ shutdown
    /\ colPc = "exited"
    /\ aggPc = "exited"
    /\ clock > 0
    /\ last_aggregation

\* C16: after a poll cycle whose fetch yielded zero records (an empty
\* response, or a fetch exception after which get_entities returns an
\* empty list) the poll interval is ERROR_TIMEOUT.
C16_SkippedCycleBacksOff ==
    SkippedLast => timeout = ERROR_TIMEOUT

\* a cycle with an unclassified fetch exception, and one with an empty
\* response, each met by a registry that holds entities
C16_Witness ==
    /\ SkippedLast
    /\ fetched.kind = "unknown"
    /\ Len(entities) > 0
    /\ timeout = ERROR_TIMEOUT
    /\ ERROR_TIMEOUT # DEFAULT_TIMEOUT

\* the ids a snapshot reports
SnapshotIds(v) == {v[k].id : k \in DOMAIN v}

\* the latest cycle took the empty-registry branch of consume_pb
BootstrappedLast ==
    /\ outcomes # <<>>
    /\ \A k \in DOMAIN outcomes : outcomes[k] = "bootstrap"

\* C17: a cycle that meets an empty registry with a non-empty snapshot
\* creates exactly one entity per incoming record (the registry then has as
\* many entities as the snapshot has records, in the records' order) and
\* finalizes and saves nothing; the cycle after it, when it reports the same
\* ids, leaves the registry size unchanged.
C17_BootstrapOnePerRecord ==
    [][ProcessedStep =>
         /\ entities = <<>> =>
               /\ Len(entities') = Len(fetched'.vehicles)
               /\ \A k \in DOMAIN fetched'.vehicles :
                     /\ entities'[k].entity_id = fetched'.vehicles[k].id
                     /\ NumObs(entities'[k]) = 1
               /\ removed' = {}
               /\ saved' = <<>>
         /\ (/\ BootstrappedLast
             /\ SnapshotIds(fetched'.vehicles) = SnapshotIds(fetched.vehicles)) =>
               Len(entities') = Len(entities)]_vars

\* a bootstrap of two records was followed by a cycle reporting the same two
\* ids with later timestamps: both entities were updated, none was added
C17_Witness ==
    /\ Len(entities) = 2
    /\ outcomes = <<"updated", "updated">>
    /\ {entities[i].created : i \in DOMAIN entities} = {1, 2}
    /\ clock = 2
    /\ \A i \in DOMAIN entities : NumObs(entities[i]) = 2
    /\ removed = {}

\* C18: no exception leaves upload_file; it returns True exactly when
\* boto3.client returned a client and put_object completed without raising,
\* and False for every failure: missing or partial credentials, a
\* ClientError with any code (or none), and any other exception, whichever
\* of the calls in the try block raised it.
C18_UploadReturnsBoolean ==
    uploads > 0 =>
      /\ upload.end.returned \in {"True", "False"}
      /\ upload.end.returned = "True" <=>
            (upload.end.client_created /\ upload.end.put_completed)
      /\ (\/ upload.client # NoExc
          \/ ~Encodable(upload.data)
          \/ upload.put.exc # NoExc) => upload.end.returned = "False"
      /\ upload.end.put_completed <=>
            (upload.client = NoExc /\ Encodable(upload.data)
             /\ upload.put.exc = NoExc)

\* after one upload that succeeded, a call whose put_object timed out
\* returned False although the client had been created
C18_Witness ==
    /\ uploads = 2
    /\ \E n \in ObjectNames : objects[n] # NoBody
    /\ upload.put.exc.class = "TimeoutError"
    /\ upload.end.client_created
    /\ upload.end.returned = "False"
    /\ upload.end.logged = "unexpected error"

\* C19: toMFJSON of an entity created from one record and updated k times
\* returns a collection of one feature whose temporalGeometry coordinates
\* and datetimes each have k+1 elements and are the entity's coordinates
\* and updated_at sequences; the call leaves the entity as it was.
C19_SerializeReflectsEntity ==
    [][EntitySerialize =>
         /\ mfjson'.type = "FeatureCollection"
         /\ Len(mfjson'.features) = 1
         /\ LET g == mfjson'.features[1].temporalGeometry
            IN /\ Len(g.coordinates) = appends + 1
               /\ Len(g.datetimes) = appends + 1
               /\ g.coordinates = ent.coordinates
               /\ g.datetimes = ent.updated_at
         /\ ent' = ent
         /\ appends' = appends]_vars

\* an entity with carriages, updated once and then serialized: the document
\* holds its two coordinate pairs and two datetimes
C19_Witness ==
    /\ ent # None
    /\ appends = 1
    /\ mfjson = ToMFJSON(ent)
    /\ Len(mfjson.features[1].temporalGeometry.coordinates) = 2
    /\ mfjson.features[1].temporalGeometry.datetimes = ent.updated_at
    /\ ent.coordinates[1] # ent.coordinates[2]
    /\ ent.carriages # <<>>

\* C20: after a cycle that met a non-empty registry with a non-empty
\* snapshot, every entity that was in the registry before the cycle and whose
\* id the snapshot does not report has been finalized (handed to Entity.save
\* exactly once if it had 2 or more observations, not at all otherwise) and
\* is no longer in the registry, and the ids in the registry are exactly the
\* ids of the snapshot.
C20_SweepLeavesSnapshotIds ==
    [][(ProcessedStep /\ entities # <<>>) =>
         /\ \A i \in DOMAIN entities :
               LET e == entities[i]
               IN e.entity_id \notin SnapshotIds(fetched'.vehicles) =>
                    /\ \E x \in removed' :
                          /\ x.uid = e.created
                          /\ x.entity_id = e.entity_id
                          /\ x.nobs = NumObs(e)
                    /\ Cardinality({k \in DOMAIN saved' :
                                       saved'[k].uid = e.created})
                          = (IF NumObs(e) >= 2 THEN 1 ELSE 0)
                    /\ \A j \in DOMAIN entities' :
                          entities'[j].created # e.created
         /\ RegistryIds(entities') = SnapshotIds(fetched'.vehicles)]_vars

\* a cycle swept an entity with 2 observations, which was saved, and kept
\* the entity its snapshot reported
C20_Witness ==
    /\ fetched.kind = "ok"
    /\ \E x \in removed :
          /\ x.why = "sweep"
          /\ x.nobs >= 2
          /\ x.entity_id \notin SnapshotIds(fetched.vehicles)
          /\ \E k \in DOMAIN saved : saved[k].uid = x.uid
    /\ entities # <<>>
    /\ RegistryIds(entities) = SnapshotIds(fetched.vehicles)

\* the registry as the reconcile loop of the cycle about to run finds it
\* (after the ceiling check)
RegistryAtReconcile == CheckMemoryLimit(CycleStart).entities

\* C21: in a cycle that reconciles (non-empty registry, non-empty snapshot),
\* a record whose id is in the registry and whose timestamp is the entity's
\* last recorded one changes nothing: the entity is in the registry after the
\* cycle exactly as it was (no observation appended), it is the only entity
\* with its id, and it was not finalized in the cycle, whatever the record's
\* direction.
C21_DuplicateTimestampNoMutation ==
    [][(ProcessedStep /\ RegistryAtReconcile # <<>>) =>
         \A k \in DOMAIN fetched'.vehicles :
            LET r == fetched'.vehicles[k]
                i == FindEntity(RegistryAtReconcile, r.id)
            IN (/\ i # 0
                /\ RegistryAtReconcile[i].updated_at[
                       Len(RegistryAtReconcile[i].updated_at)]
                     = TimestampToIso(r.timestamp)) =>
                 LET e == RegistryAtReconcile[i]
                 IN /\ \E j \in DOMAIN entities' : entities'[j] = e
                    /\ Cardinality(WithId(entities', r.id)) = 1
                    /\ \A x \in removed' : x.uid # e.created]_vars

\* a cycle met a record repeating the last timestamp of its entity but
\* reporting the other direction: the entity was kept as it was
C21_Witness ==
    /\ fetched.kind = "ok"
    /\ \E k \in DOMAIN fetched.vehicles :
          /\ k \in DOMAIN outcomes
          /\ outcomes[k] = "duplicate"
          /\ \E j \in DOMAIN entities :
                /\ entities[j].entity_id = fetched.vehicles[k].id
                /\ entities[j].direction_id # fetched.vehicles[k].direction_id
                /\ entities[j].updated_at[Len(entities[j].updated_at)]
                     = TimestampToIso(fetched.vehicles[k].timestamp)

\* C22: at the end of every poll cycle, after any sequence of cycles whose
\* snapshots report each id once, no two entities of the registry have the
\* same entity id.
C22_RegistryIdsUnique ==
    \A i, j \in DOMAIN entities :
        entities[i].entity_id = entities[j].entity_id => i = j

\* a cycle that replaced one entity on a direction change and created another
\* left a registry of several entities
C22_Witness ==
    /\ Len(entities) >= 2
    /\ "direction_changed" \in Range(outcomes)
    /\ "created" \in Range(outcomes)
    /\ Cardinality(RegistryIds(entities)) = Len(entities)

\* the entities the ceiling check of the latest cycle removed
Culled(rem) == {x \in rem : x.why = "ceiling"}

\* C23: in every poll cycle (whatever its fetch brings), when the registry
\* holds more than MAX_ENTITIES entities at the start, the ceiling check
\* removes exactly one entity, the one created earliest, and hands it to
\* Entity.save exactly once if it has 2 or more observations and not at all
\* otherwise; when the registry does not exceed MAX_ENTITIES the ceiling
\* check removes nothing.
C23_CeilingEvictsOldestOnly ==
    [][IF Len(entities) > MAX_ENTITIES
       THEN \E i \in DOMAIN entities :
              /\ \A j \in DOMAIN entities :
                    entities[i].created <= entities[j].created
              /\ Culled(removed') =
                    {[uid |-> entities[i].created,
                      entity_id |-> entities[i].entity_id,
                      nobs |-> NumObs(entities[i]), why |-> "ceiling"]}
              /\ Cardinality({k \in DOMAIN saved' :
                                 saved'[k].uid = entities[i].created})
                    = (IF NumObs(entities[i]) >= 2 THEN 1 ELSE 0)
              /\ \A j \in DOMAIN entities' :
                    entities'[j].created # entities[i].created
       ELSE Culled(removed') = {}]_vars

\* a cycle with a non-empty snapshot began above the ceiling: the oldest
\* entity, with one observation, was removed without being saved
C23_Witness ==
    /\ fetched.kind = "ok"
    /\ Len(fetched.vehicles) > 0
    /\ \E x \in Culled(removed) :
          /\ x.nobs = 1
          /\ \A k \in DOMAIN saved : saved[k].uid # x.uid
          /\ \A j \in DOMAIN entities : entities[j].created > x.uid
    /\ Cardinality(Culled(removed)) = 1

\* the Entity.save calls of a cycle without their outcome
SaveCallsOf(sv) ==
    [k \in DOMAIN sv |-> [uid |-> sv[k].uid, entity_id |-> sv[k].entity_id,
                          nobs |-> sv[k].nobs]]

\* C24: a poll cycle in which Entity.save fails with an OSError ends like
\* the same cycle on a writable disk: the thread is not ended by it, every
\* finalized entity is out of the registry, and the registry, the outcome of
\* every record, the removals and the save calls (ceiling, direction change
\* and sweep) are those of the cycle without the failure.
C24_SaveFailureDoesNotStopCycle ==
    [][(ProcessedStep /\ \E k \in DOMAIN saved' : ~saved'[k].written) =>
         LET good == Process(CheckMemoryLimit(CycleStart), fetched'.vehicles)
         IN /\ colPc' # "killed"
            /\ entities' = good.entities
            /\ outcomes' = good.outcomes
            /\ removed' = good.removed
            /\ SaveCallsOf(saved') = SaveCallsOf(good.saved)
            /\ \A k \in DOMAIN saved' :
                  \A j \in DOMAIN entities' :
                     entities'[j].created # saved'[k].uid]_vars

\* a cycle whose save of a direction-changed entity failed: the entity was
\* replaced all the same, and a later record of the snapshot was processed
C24_Witness ==
    /\ fetched.kind = "ok"
    /\ \E k \in DOMAIN saved :
          /\ ~saved[k].written
          /\ \E x \in removed : x.uid = saved[k].uid /\ x.why = "direction"
          /\ \A j \in DOMAIN entities : entities[j].created # saved[k].uid
    /\ Len(outcomes) >= 2
    /\ outcomes[Len(outcomes)] # "direction_changed"

\* C25: every file Entity.save writes lies in the directory
\* <file_path>/raw/<route id>/<date>, where the route id is the entity's
\* (the one of the record that created it) and the date is the calendar date
\* of its first observation timestamp, whatever the dates of its later
\* observations and the day of the save call.
C25_PartitionOfFirstObservation ==
    \A f \in savedFiles :
        LET feat == f.body.features[1]
        IN /\ f.dir = <<DataRoot, "raw", feat.properties.route_id,
                        DateOf(feat.temporalGeometry.datetimes[1])>>
           /\ ent # None => feat.properties.route_id = ent.route_id

\* an entity of route R2 first observed on day 0 and last on day 1 was saved
\* on day 2: its file is in the partition of R2 and day 0
C25_Witness ==
    \E f \in savedFiles :
        LET dts == f.body.features[1].temporalGeometry.datetimes
        IN /\ f.dir = <<DataRoot, "raw", "R2", 0>>
           /\ DateOf(dts[Len(dts)]) = 1
           /\ f.saved_on = 2

\* the carriages of the entity with the given label
CarriagesWith(l) ==
    {i \in DOMAIN ent.carriages : ent.carriages[i].label = l}

\* C26 as stated: every carriage label ever reported for the entity, by the
\* record that created it or by a record handed to update, has a carriage
\* sub-state.
C26_ReportedCarriageHasSubState ==
    ent # None =>
      \A l \in CarriageLabels : reports[l] > 0 => CarriagesWith(l) # {}

C28_DateRangesHoldFiles ==
    \A p \in FindDateRanges(raw, onDisk) : raw[p] # <<>> => onDisk[p] # {}

\* C29: the merged artifact save_aggregated wrote is deleted locally only
\* when an S3 bucket is given, delete_after_upload is set and upload_file
\* returned True; after a failed upload the local artifact is still there,
\* the call reports failure (counted in total_failed), and aggregate_all goes
\* on with the next route/day.
C29_LocalArtifactKeptOnUploadFailure ==
    /\ [](\A p \in DOMAIN Partitions :
            /\ (artifact[p].written /\ artifact[p].local = NoCollection) =>
                  /\ opts.s3_bucket
                  /\ opts.delete_after_upload
                  /\ artifact[p].upload = "ok"
                  /\ artifact[p].s3 # NoCollection
            /\ artifact[p].upload = "failed" =>
                  /\ artifact[p].written
                  /\ artifact[p].local # NoCollection
                  /\ artifact[p].s3 = NoCollection
                  /\ artifact[p].result = "failed")
    /\ [][(run.pc = "save" /\ artifact'[run.p].upload = "failed") =>
            /\ run' = NextPartition
            /\ totals' = [totals EXCEPT !.failed = @ + 1]
            /\ onDisk' = onDisk]_vars

\* the upload of the first day's artifact failed (the local file stayed);
\* the run went on to the second day, uploaded its artifact and deleted it
C29_Witness ==
    /\ opts.s3_bucket /\ opts.delete_after_upload
    /\ artifact[1].upload = "failed"
    /\ artifact[1].local # NoCollection
    /\ artifact[2].result = "ok"
    /\ artifact[2].written
    /\ artifact[2].local = NoCollection
    /\ totals = [aggregated |-> 1, failed |-> 1]

\* C30 as stated: the record compute_segment_statistics returns for the
\* features of a route/day partition (of either direction) is for one route
\* and one direction: every segment of its list has the route_id and the
\* direction_id the record states, and the list is sorted by segment id.
C30_StatsRecordOneDirection ==
    segment_stats.computed =>
      /\ \A k \in DOMAIN segment_stats.segments :
            /\ segment_stats.segments[k].segment_id[1] = segment_stats.route_id
            /\ segment_stats.segments[k].segment_id[2]
                  = segment_stats.direction_id
      /\ \A j, k \in DOMAIN segment_stats.segments :
            j < k => IdBefore(segment_stats.segments[j].segment_id,
                              segment_stats.segments[k].segment_id)

\* the observations of the input features, as <<feature, index>> pairs, that
\* match_trajectory put on the segment
InputOn(id) ==
    {<<j, i>> \in (DOMAIN day_features) \X (1..MaxStops) :
        /\ i \in DOMAIN day_features[j].segment_id.values
        /\ day_features[j].segment_id.values[i] = id}

RECURSIVE SumObservations(_)
SumObservations(segments) ==
    IF segments = <<>> THEN 0
    ELSE Head(segments).observations + SumObservations(Tail(segments))

\* C31: in the record of compute_segment_statistics the observation count of
\* a segment is the number of input observations with its segment id, its
\* trip count the number of distinct trip ids among them, the counts sum to
\* the number of input observations that are on a segment, and no segment
\* stands for the observations that are on none.
C31_SegmentCounts ==
    segment_stats.computed =>
      LET segments == segment_stats.segments
          on_any == {p \in (DOMAIN day_features) \X (1..MaxStops) :
                       /\ p[2] \in DOMAIN day_features[p[1]].segment_id.values
                       /\ day_features[p[1]].segment_id.values[p[2]] # NoSegment}
      IN /\ \A k \in DOMAIN segments :
              /\ segments[k].segment_id # NoSegment
              /\ segments[k].observations
                    = Cardinality(InputOn(segments[k].segment_id))
              /\ segments[k].trips
                    = Cardinality({day_features[p[1]].trip_id :
                                     p \in InputOn(segments[k].segment_id)})
         /\ SumObservations(segments) = Cardinality(on_any)

\* a segment observed twice by one trip, in two features, one of which also
\* has an observation on no segment
C31_Witness ==
    /\ segment_stats.computed
    /\ \E k \in DOMAIN segment_stats.segments :
          /\ segment_stats.segments[k].observations = 2
          /\ segment_stats.segments[k].trips = 1
    /\ \E j \in DOMAIN day_features :
          \E i \in DOMAIN day_features[j].segment_id.values :
             day_features[j].segment_id.values[i] = NoSegment

\* the input observations on the segment that carry an occupancy status
StatusOn(id) ==
    {p \in InputOn(id) : day_features[p[1]].occupancy_status[p[2]] # Null}

C33_NormalizedRange ==
    LET given == FilterNone(pcts)
        normalized == [i \in DOMAIN given |->
                         IF given[i] > 100 THEN given[i] \div 100 ELSE given[i]]
    IN /\ Normalize(given) = normalized
       /\ \A p \in 0..100 : Normalize(<<100 * p>>)[1] \in 0..100
       /\ occupancy_stats.computed =>
            {occupancy_stats.min, occupancy_stats.max, occupancy_stats.median,
             occupancy_stats.mode, occupancy_stats.p95} \subseteq Range(normalized)

\* statistics of a list with the percentage 40.0 and the fraction 1.0, where
\* the normalised percentage is the min and the unchanged 1.0 the max
C33_Witness ==
    /\ occupancy_stats.computed
    /\ \E i \in DOMAIN pcts : pcts[i] = 4000
    /\ \E i \in DOMAIN pcts : pcts[i] = 100
    /\ occupancy_stats.min = 40
    /\ occupancy_stats.max = 100

\* the identity fields of an entity
Identity(e) ==
    <<e.entity_id, e.direction_id, e.route_id, e.trip_id,
      e.schedule_relationship, e.start_date, e.start_time, e.vehicle_id,
      e.vehicle_label, e.license_plate, e.label, e.created>>

\* C34: in a reconcile cycle, a record whose id matches a registry entity
\* with another last timestamp and the same direction appends exactly one
\* observation, the record's, to that entity and changes none of its
\* identity fields, whatever route or trip the record reports; and no step
\* changes the identity fields of an entity that stays in the registry.
C34_AppendKeepsIdentity ==
    [][/\ (ProcessedStep =>
            LET registry == RegistryAtReconcile
            IN registry # <<>> =>
                 \A k \in DOMAIN fetched'.vehicles :
                    LET r == fetched'.vehicles[k]
                        i == FindEntity(registry, r.id)
                        e == registry[i]
                        n == NumObs(e)
                    IN (/\ i # 0
                        /\ e.updated_at[n] # TimestampToIso(r.timestamp)
                        /\ e.direction_id = r.direction_id) =>
                         \E j \in DOMAIN entities' :
                            /\ Identity(entities'[j]) = Identity(e)
                            /\ TemporalLengths(entities'[j]) = {n + 1}
                            /\ SubSeq(entities'[j].updated_at, 1, n)
                                  = e.updated_at
                            /\ entities'[j].updated_at[n + 1]
                                  = TimestampToIso(r.timestamp))
         /\ (entities' # entities =>
               \A i \in DOMAIN entities, j \in DOMAIN entities' :
                  entities'[j].created = entities[i].created =>
                     Identity(entities'[j]) = Identity(entities[i]))]_vars

\* an entity created on trip T1 of route R1 got a second observation from a
\* record that reports trip T2 of route R2, and kept its trip and route
C34_Witness ==
    /\ fetched.kind = "ok"
    /\ \E k \in DOMAIN fetched.vehicles :
          /\ k \in DOMAIN outcomes
          /\ outcomes[k] = "updated"
          /\ fetched.vehicles[k].trip_id = "T2"
          /\ fetched.vehicles[k].route_id = "R2"
          /\ \E j \in DOMAIN entities :
                /\ entities[j].entity_id = fetched.vehicles[k].id
                /\ NumObs(entities[j]) = 2
                /\ entities[j].trip_id = "T1"
                /\ entities[j].route_id = "R1"

\* the files of the partition that aggregate_day can read as a collection
WellFormed(p) ==
    {i \in onDisk[p] : raw[p][i].type = "FeatureCollection"}

C36_ShutdownPersistsNothing ==
    [][/\ colPc' = "exited" =>
            (/\ colPc \in {"loop", "exited"}
             /\ shutdown
             /\ UNCHANGED <<entities, removed, saved, clock>>)
       /\ saved' # saved => colPc = "cycle"
       /\ removed' # removed => colPc = "cycle"]_vars

\* the poll loop has exited with an entity of two observations still in the
\* registry: it was neither finalized nor persisted
C36_Witness ==
    /\ colPc = "exited"
    /\ \E i \in DOMAIN entities :
          /\ NumObs(entities[i]) > 1
          /\ \A k \in DOMAIN saved : saved[k].uid # entities[i].created
          /\ \A x \in removed : x.uid # entities[i].created

\* C37: the poll interval of a feed never decreases: no cycle lowers
\* feed.timeout, and once it is ERROR_TIMEOUT every later cycle, processed
\* ones included, leaves it there.
C37_IntervalNeverDecreases ==
    [][/\ timeout' >= timeout
       /\ timeout = ERROR_TIMEOUT => timeout' = ERROR_TIMEOUT]_vars

\* a cycle processed a non-empty snapshot with the interval already
\* escalated, and the interval is still ERROR_TIMEOUT
C37_Witness ==
    /\ timeout = ERROR_TIMEOUT
    /\ fetched.kind = "ok"
    /\ Len(fetched.vehicles) > 0
    /\ outcomes # <<>>

\* C38: in every entity of the registry, built by creation and by the
\* appends of consume_pb, no two consecutive timestamps of updated_at are
\* equal, after any sequence of cycles.
C38_NoRepeatedTimestamp ==
    \A i \in DOMAIN entities :
       \A k \in 1..(NumObs(entities[i]) - 1) :
          entities[i].updated_at[k] # entities[i].updated_at[k + 1]

\* an entity with two observations met a record that repeats its last
\* timestamp, and still has two observations
C38_Witness ==
    /\ fetched.kind = "ok"
    /\ \E k \in DOMAIN fetched.vehicles :
          /\ k \in DOMAIN outcomes
          /\ outcomes[k] = "duplicate"
          /\ \E j \in DOMAIN entities :
                /\ entities[j].entity_id = fetched.vehicles[k].id
                /\ NumObs(entities[j]) = 2
                /\ entities[j].updated_at[2]
                     = TimestampToIso(fetched.vehicles[k].timestamp)

\* C39: in aggregate_all the outcome of save_segment_stats has no influence
\* on the rest of the run: whether it succeeds or fails the day stays
\* counted as aggregated, the totals are left alone, and the deletion of the
\* source files comes next and removes, when delete_raw_files is set, every
\* source file whose unlink does not raise.
C39_StatsOutcomeIgnored ==
    [][/\ (run.pc = "stats")
            => /\ statsOut'[run.p] # "none"
               /\ run' = [run EXCEPT !.pc = "delete"]
               /\ totals' = totals
               /\ artifact' = artifact
               /\ artifact[run.p].result = "ok"
               /\ totals.aggregated >= 1
       /\ (run.pc = "delete" /\ statsOut[run.p] # "none")
            => /\ totals' = totals
               /\ artifact[run.p].result = "ok"
               /\ IF opts.delete_raw_files
                  THEN \E stuck \in SUBSET Range(cur.raw_files) :
                          onDisk'[run.p]
                            = onDisk[run.p] \ (Range(cur.raw_files) \ stuck)
                  ELSE onDisk' = onDisk]_vars

\* save_segment_stats failed for a day, and the day is counted and its
\* source files are gone
C39_Witness ==
    \E p \in DOMAIN Partitions :
       /\ statsOut[p] \in {"write_failed", "upload_failed"}
       /\ run.p > p
       /\ opts.delete_raw_files
       /\ raw[p] # <<>>
       /\ onDisk[p] = {}
       /\ artifact[p].result = "ok"
       /\ totals.aggregated >= 1

=============================================================================
